---- MODULE Spec2Model ----
(***************************************************************************)
(* A model of stargazer: the extraction orchestrator (extractor.py) driving *)
(* the GitHub client (github_client.py) against a nondeterministic          *)
(* upstream.  Every request the client issues is one step; the upstream     *)
(* chooses the response.  `requests` is the trace of requests issued, each  *)
(* with a summary of its response, and `delivered` the list items the       *)
(* upstream has served: both are history variables the code does not keep.  *)
(*                                                                          *)
(* Optional values (Python's None) are <<>> and a present value v is <<v>>. *)
(* Text that the code inspects (e-mail addresses) is a sequence of          *)
(* one-character strings.                                                   *)
(***************************************************************************)
EXTENDS Integers, Sequences, FiniteSets, TLC

VARIABLES
    entry,      \* the public operation the caller invoked
    args,       \* its arguments
    pc,         \* the control position inside the call
    section,    \* "stargazers" or "forkers": the list being collected
    page,       \* paginator local: next page number
    max_pages,  \* paginator parameter: optional page ceiling
    users,      \* paginator local: records accumulated so far
    pending,    \* _extract_*: the (truncated) list being enriched
    enriched,   \* _extract_*: detailed_stargazers / detailed_forkers
    repos,      \* _extract_email_from_user_repos: repos[:3] of the response
    repo_i,     \* _extract_email_from_user_repos: index of the repo in turn
    result,     \* optional value returned to the caller
    raised,     \* optional error raised to the caller
    requests,   \* history: requests issued, in order, with their outcome
    delivered,  \* history: list items served by the upstream, per section
    slept,      \* history: time.sleep(0.1) calls of a _make_request call
                \* followed attempt by attempt (elsewhere a request is one step)
    calls       \* history: the calls already finished on the same object

vars == <<entry, args, pc, section, page, max_pages, users, pending, enriched,
          repos, repo_i, result, raised, requests, delivered, slept, calls>>

pagVars  == <<page, max_pages, users>>
userVars == <<repos, repo_i>>

(***************************************************************************)
(* Bounds of the exploration.                                              *)
(***************************************************************************)
\* list items the upstream serves during one extract_repository_info call
MaxItems == 2
\* list items the upstream serves during one direct get_stargazers/get_forks call
MaxItemsDirect == 3
\* requests the upstream answers freely during one extract_repository_info call
MaxRequests == 6
\* repositories in a /users/{u}/repos response, during an extraction
MaxReposExtract == 1
\* repositories in a /users/{u}/repos response, for a direct get_user_info call
MaxRepos == 4

Logins == {"alice", "bob"}

Roster == <<"alice", "bob", "carol", "dave">>

\* an owner of repositories who is none of the users above
Octocat == "octocat"

None == <<>>
Some(v) == <<v>>

\* Python truthiness of an optional integer: None and 0 are false
TruthyInt(o) == o # None /\ o[1] # 0

Min(a, b) == IF a < b THEN a ELSE b
Max(a, b) == IF a > b THEN a ELSE b

SeqsUpTo(S, n) == UNION {[1..k -> S] : k \in 0..n}

(***************************************************************************)
(* Text helpers: str.endswith, str.startswith, `in`.                       *)
(***************************************************************************)
StartsWith(s, p) ==
    Len(p) <= Len(s) /\ SubSeq(s, 1, Len(p)) = p

EndsWith(s, p) ==
    Len(p) <= Len(s) /\ SubSeq(s, Len(s) - Len(p) + 1, Len(s)) = p

Contains(s, c) == \E i \in 1..Len(s) : s[i] = c

NoreplySuffix ==
    <<"@","u","s","e","r","s",".","n","o","r","e","p","l","y",".",
      "g","i","t","h","u","b",".","c","o","m">>

NoreplyPrefix == <<"n","o","r","e","p","l","y">>

\* mutant: the filter without its `not email.startswith("noreply")` test
AcceptEmail_NoPrefixTest(email) ==
    /\ email # <<>>
    /\ ~EndsWith(email, NoreplySuffix)
    /\ Contains(email, "@")

\* the filter of github_client.py:321-324 (repeated at 356-359 and 393-396)
AcceptEmail(email) ==
    /\ email # <<>>
    /\ ~EndsWith(email, NoreplySuffix)
    /\ Contains(email, "@")
    /\ ~StartsWith(email, NoreplyPrefix)


(***************************************************************************)
(* Transport, summarised: what _make_request gives its caller for the      *)
(* final status of a request.  Status 0 stands for a connection-level      *)
(* failure (no HTTP response).                                             *)
(***************************************************************************)
ConnectionFailure == 0

\* statuses the upstream answers with in the walks above the transport
AnyStatus == {200, 404, 429}

Succeeds(status) == status \in 200..299

\* github_client.py:87-112: the exception _make_request raises
RequestError(status) ==
    IF status = 429 THEN [type |-> "RateLimitError", msg |-> "Rate limit exceeded"]
    ELSE IF status = ConnectionFailure
         THEN [type |-> "GitHubAPIError", msg |-> "Request failed"]
    ELSE IF status = 404 THEN [type |-> "GitHubAPIError", msg |-> "Repository not found"]
    ELSE IF status = 403 THEN [type |-> "GitHubAPIError", msg |-> "Access forbidden"]
    ELSE [type |-> "GitHubAPIError", msg |-> "HTTP error"]

\* one entry of the request trace
Req(ep, sec, pg, login, repo, status, items, found) ==
    [ep |-> ep, sec |-> sec, page |-> pg, login |-> login, repo |-> repo,
     status |-> status, items |-> items, email |-> found]

(***************************************************************************)
(* Records (models.py).                                                     *)
(***************************************************************************)
\* UserInfo(login=..., avatar_url=..., html_url=...): a minimal record
MinimalUser(login) == [login |-> login, email |-> None, profile |-> FALSE]

\* UserInfo built from a /users/{login} response: a detailed record
DetailedUser(login, email) == [login |-> login, email |-> email, profile |-> TRUE]

\* mutant: the report is built without its repository
ExtractionResult_NoRepository(repo_info) ==
    [repository       |-> None,
     stargazers       |-> <<>>,
     forkers          |-> <<>>,
     total_stargazers |-> repo_info.stargazers_count,
     total_forkers    |-> repo_info.forks_count]

\* ExtractionResult(repository=..., total_stargazers=..., total_forkers=...)
ExtractionResult(repo_info) ==
    [repository       |-> repo_info,
     stargazers       |-> <<>>,
     forkers          |-> <<>>,
     total_stargazers |-> repo_info.stargazers_count,
     total_forkers    |-> repo_info.forks_count]

(***************************************************************************)
(* The caller's inputs and the upstream's answers.                          *)
(***************************************************************************)
Extract == "extract_repository_info"

\* max_stargazers / max_forkers: None or an integer
Caps == {None, Some(0), Some(1), Some(2), Some(31)}

\* max_pages of a direct get_stargazers / get_forks call
PageCeilings == {None, Some(0), Some(1), Some(2)}

\* the repository response: its stargazers_count and forks_count
RepoResponses ==
    {[stargazers_count |-> 3, forks_count |-> 1],
     [stargazers_count |-> 0, forks_count |-> 0]}

ExtractArgs ==
    [include_stargazers          : BOOLEAN,
     include_forkers             : BOOLEAN,
     max_stargazers              : Caps,
     max_forkers                 : Caps,
     detailed_user_info          : BOOLEAN,
     aggressive_email_extraction : BOOLEAN]

NoDelivery == [stargazers |-> <<>>, forkers |-> <<>>]

\* list items the upstream has served in this run
Served == Len(delivered.stargazers) + Len(delivered.forkers)

\* list items the upstream may still serve in this run
ItemsLeft == (IF entry = Extract THEN MaxItems ELSE MaxItemsDirect) - Served

\* the users behind the list items of one response.  During an extraction
\* the upstream serves the users of Roster, each once, in that order; a direct
\* walk is served any users, repeated or not.
PageLogins ==
    IF entry = Extract
    THEN {[i \in 1..n |-> Roster[Served + i]] : n \in 0..ItemsLeft}
    ELSE SeqsUpTo(Logins, ItemsLeft)

\* a stargazers page: items carrying login (avatar_url, html_url) themselves
UserPages == {[i \in DOMAIN p |-> [login |-> p[i]]] : p \in PageLogins}

\* a forks page: fork entries carrying the user under `owner`
ForkPages == {[i \in DOMAIN p |-> [owner |-> [login |-> p[i]]]] : p \in PageLogins}

\* the upstream's rate limit: during an extraction, every request after the
\* first MaxRequests is answered 429
Statuses ==
    IF entry # Extract \/ requests = <<>> THEN AnyStatus
    ELSE IF Len(requests) >= MaxRequests THEN {429}
    ELSE {200, 429}

InitCommon ==
    /\ section = ""
    /\ page = 1
    /\ max_pages = None
    /\ users = <<>>
    /\ pending = <<>>
    /\ enriched = <<>>
    /\ repos = <<>>
    /\ repo_i = 0
    /\ result = None
    /\ raised = None
    /\ requests = <<>>
    /\ delivered = NoDelivery
    /\ slept = 0
    /\ calls = <<>>

\* extract_repository_info is called on a fresh extractor
Init ==
    /\ entry = Extract
    /\ args \in ExtractArgs
    /\ pc = "fetch_repo"
    /\ InitCommon


(***************************************************************************)
(* extract_repository_info (extractor.py:27-97)                            *)
(***************************************************************************)
PerPage == 30

\* mutant: the page ceiling is rounded down
MaxPagesFor_Floor(max_count) ==
    IF TruthyInt(max_count)
    THEN Some(max_count[1] \div PerPage)
    ELSE None

\* extractor.py:160-161 / 206-207: the page ceiling for a cap
MaxPagesFor(max_count) ==
    IF TruthyInt(max_count)
    THEN Some((max_count[1] + PerPage - 1) \div PerPage)
    ELSE None

\* Python's list[:n]
SliceTo(list, n) ==
    IF n >= 0 THEN SubSeq(list, 1, Min(n, Len(list)))
    ELSE SubSeq(list, 1, Max(Len(list) + n, 0))


\* mutant: the cap keeps the last records instead of the first
Truncate_KeepsLast(list, max_count) ==
    IF TruthyInt(max_count)
    THEN SubSeq(list, Max(Len(list) - max_count[1], 0) + 1, Len(list))
    ELSE list

\* extractor.py:165-166 / 211-212: truncation to the cap
Truncate(list, max_count) ==
    IF TruthyInt(max_count) THEN SliceTo(list, max_count[1]) ELSE list

SectionCap ==
    IF section = "stargazers" THEN args.max_stargazers ELSE args.max_forkers

\* mutant: after the forker section the stargazer section is entered again
AfterSection_Revisits ==
    IF section = "stargazers" THEN "forkers"
    ELSE IF Len(requests) < MaxRequests THEN "stargazers" ELSE "done"

\* where extract_repository_info goes on after a section
AfterSection == IF section = "stargazers" THEN "forkers" ELSE "done"


\* mutant: the section's stored list also overwrites the report's total
ReturnSection_CountsFetched(list) ==
    /\ result' = Some([result[1] EXCEPT
                          ![section] = list,
                          ![IF section = "stargazers" THEN "total_stargazers"
                            ELSE "total_forkers"] = Len(list)])
    /\ pc' = AfterSection
    /\ raised' = raised
    /\ pending' = <<>>
    /\ enriched' = <<>>

\* mutant: the section lists live on the extractor and a later call appends
\* to what an earlier call stored
ReturnSection_Accumulates(list) ==
    /\ result' = Some([result[1] EXCEPT ![section] =
                          (IF calls # <<>> /\ calls[1].result # None
                           THEN calls[1].result[1][section] ELSE <<>>) \o list])
    /\ pc' = AfterSection
    /\ raised' = raised
    /\ pending' = <<>>
    /\ enriched' = <<>>

\* extractor.py:81 / 92: _extract_* returned `list`; it is stored in the report
ReturnSection(list) ==
    /\ result' = Some([result[1] EXCEPT ![section] = list])
    /\ pc' = AfterSection
    /\ raised' = raised
    /\ pending' = <<>>
    /\ enriched' = <<>>


\* mutant: a failed section aborts the extraction
FailSection_Abort ==
    /\ result' = None
    /\ pc' = "done"
    /\ raised' = Some([type |-> "GitHubAPIError", msg |-> "section failed"])
    /\ pending' = <<>>
    /\ enriched' = <<>>

\* mutant: a failed section also empties the stargazers stored before
FailSection_ClearsStargazers ==
    /\ result' = Some([result[1] EXCEPT !.stargazers = <<>>])
    /\ pc' = AfterSection
    /\ raised' = raised
    /\ pending' = <<>>
    /\ enriched' = <<>>

\* extractor.py:83-84 / 94-95: an exception left _extract_*; it is logged
FailSection ==
    /\ result' = result
    /\ pc' = AfterSection
    /\ raised' = raised
    /\ pending' = <<>>
    /\ enriched' = <<>>


\* the trace entry of the /repos/{owner}/{repo} request, with the counts of
\* the response when there is one
RepoReq(status, data) ==
    Req("repo", "", 0, "", 0, status, 0, None) @@ [data |-> data]

\* mutant: a failed repository request is logged and the call returns nothing
GetRepositoryInfo_Swallow ==
    /\ pc = "fetch_repo"
    /\ \E status \in Statuses :
         /\ IF Succeeds(status)
            THEN \E data \in RepoResponses :
                   /\ requests' = Append(requests, RepoReq(status, data))
                   /\ result' = Some(ExtractionResult(data))
                   /\ raised' = raised
                   /\ pc' = "stargazers"
            ELSE /\ requests' = Append(requests, RepoReq(status, None))
                 /\ raised' = raised
                 /\ result' = result
                 /\ pc' = "done"
    /\ UNCHANGED <<entry, args, calls, slept, section, pagVars, pending, enriched, userVars, delivered>>

\* extractor.py:60-73: the repository request and the initial report
GetRepositoryInfo ==
    /\ pc = "fetch_repo"
    /\ \E status \in Statuses :
         /\ IF Succeeds(status)
            THEN \E data \in RepoResponses :
                   /\ requests' = Append(requests, RepoReq(status, data))
                   /\ result' = Some(ExtractionResult(data))
                   /\ raised' = raised
                   /\ pc' = "stargazers"
            ELSE /\ requests' = Append(requests, RepoReq(status, None))
                 /\ raised' = Some(RequestError(status))
                 /\ result' = result
                 /\ pc' = "done"
    /\ UNCHANGED <<entry, args, calls, slept, section, pagVars, pending, enriched, userVars, delivered>>

\* mutant: the stargazer section runs whatever include_stargazers says
ExtractStargazers_IgnoresFlag ==
    /\ pc = "stargazers"
    /\ section' = "stargazers"
    /\ max_pages' = MaxPagesFor(args.max_stargazers)
    /\ page' = 1
    /\ users' = <<>>
    /\ pc' = "paginate"
    /\ UNCHANGED <<entry, args, calls, slept, pending, enriched, userVars, result, raised,
                   requests, delivered>>

\* extractor.py:76-80 and 157-163: the stargazer section begins
ExtractStargazers ==
    /\ pc = "stargazers"
    /\ IF args.include_stargazers
       THEN /\ section' = "stargazers"
            /\ max_pages' = MaxPagesFor(args.max_stargazers)
            /\ page' = 1
            /\ users' = <<>>
            /\ pc' = "paginate"
       ELSE /\ pc' = "forkers"
            /\ UNCHANGED <<section, pagVars>>
    /\ UNCHANGED <<entry, args, calls, slept, pending, enriched, userVars, result, raised,
                   requests, delivered>>

\* extractor.py:87-90 and 203-209: the forker section begins
ExtractForkers ==
    /\ pc = "forkers"
    /\ IF args.include_forkers
       THEN /\ section' = "forkers"
            /\ max_pages' = MaxPagesFor(args.max_forkers)
            /\ page' = 1
            /\ users' = <<>>
            /\ pc' = "paginate"
       ELSE /\ pc' = "done"
            /\ UNCHANGED <<section, pagVars>>
    /\ UNCHANGED <<entry, args, calls, slept, pending, enriched, userVars, result, raised,
                   requests, delivered>>

(***************************************************************************)
(* The list walks: _paginate_users (github_client.py:264-298) and          *)
(* get_forks (github_client.py:224-262).                                    *)
(***************************************************************************)
\* mutant: every record the walk returned is enriched, the dropped ones too
ReturnList_EnrichesAll(list) ==
    IF entry = Extract
    THEN IF args.detailed_user_info /\ list # <<>>
         THEN /\ pending' = list
              /\ enriched' = <<>>
              /\ pc' = "user_profile"
              /\ UNCHANGED <<result, raised>>
         ELSE ReturnSection(Truncate(list, SectionCap))
    ELSE /\ result' = Some(list)
         /\ pc' = "done"
         /\ UNCHANGED <<raised, pending, enriched>>

\* the walk returned `list` to its caller
ReturnList(list) ==
    IF entry = Extract
    THEN LET kept == Truncate(list, SectionCap) IN
         IF args.detailed_user_info /\ kept # <<>>
         THEN /\ pending' = kept
              /\ enriched' = <<>>
              /\ pc' = "user_profile"
              /\ UNCHANGED <<result, raised>>
         ELSE ReturnSection(kept)
    ELSE /\ result' = Some(list)
         /\ pc' = "done"
         /\ UNCHANGED <<raised, pending, enriched>>

\* mutant: the walk catches the error of a page request and returns the
\* records of the pages fetched so far
RaiseList_ReturnsPartial(err) ==
    IF entry = Extract
    THEN ReturnSection(Truncate(users, SectionCap))
    ELSE /\ result' = Some(users)
         /\ pc' = "done"
         /\ UNCHANGED <<raised, pending, enriched>>

\* a page request raised `err`: the walk has no handler, the error leaves it
RaiseList(err) ==
    IF entry = Extract
    THEN FailSection
    ELSE /\ raised' = Some(err)
         /\ pc' = "done"
         /\ UNCHANGED <<result, pending, enriched>>

\* github_client.py:288-294: the projection of a stargazers page
ProjectUsers(data) == [i \in DOMAIN data |-> MinimalUser(data[i].login)]

\* github_client.py:251-258: the projection of a forks page
ProjectForks(data) == [i \in DOMAIN data |-> MinimalUser(data[i].owner.login)]


\* mutant: the loop asks for the same page again instead of the next one
PaginateUsers_SamePage ==
    /\ pc = "paginate"
    /\ section = "stargazers"
    /\ IF TruthyInt(max_pages) /\ page > max_pages[1]
       THEN /\ ReturnList(users)
            /\ users' = <<>>
            /\ UNCHANGED <<page, requests, delivered>>
       ELSE \E status \in Statuses :
              IF ~Succeeds(status)
              THEN /\ requests' = Append(requests,
                          Req("stargazers", section, page, "", 0, status, 0, None))
                   /\ RaiseList(RequestError(status))
                   /\ users' = <<>>
                   /\ UNCHANGED <<page, delivered>>
              ELSE \E data \in UserPages :
                     /\ requests' = Append(requests,
                          Req("stargazers", section, page, "", 0, status, Len(data), None))
                     /\ IF data = <<>>
                        THEN /\ ReturnList(users)
                             /\ users' = <<>>
                             /\ UNCHANGED <<page, delivered>>
                        ELSE /\ users' = users \o ProjectUsers(data)
                             /\ page' = page
                             /\ delivered' = [delivered EXCEPT
                                   !.stargazers = @ \o [i \in DOMAIN data |-> data[i].login]]
                             /\ UNCHANGED <<pc, result, raised, pending, enriched>>
    /\ UNCHANGED <<entry, args, calls, slept, section, max_pages, userVars>>

\* mutant: the loop never compares the page number with the ceiling
PaginateUsers_NoCeiling ==
    /\ pc = "paginate"
    /\ section = "stargazers"
    /\ IF FALSE
       THEN /\ ReturnList(users)
            /\ users' = <<>>
            /\ UNCHANGED <<page, requests, delivered>>
       ELSE \E status \in Statuses :
              IF ~Succeeds(status)
              THEN /\ requests' = Append(requests,
                          Req("stargazers", section, page, "", 0, status, 0, None))
                   /\ RaiseList(RequestError(status))
                   /\ users' = <<>>
                   /\ UNCHANGED <<page, delivered>>
              ELSE \E data \in UserPages :
                     /\ requests' = Append(requests,
                          Req("stargazers", section, page, "", 0, status, Len(data), None))
                     /\ IF data = <<>>
                        THEN /\ ReturnList(users)
                             /\ users' = <<>>
                             /\ UNCHANGED <<page, delivered>>
                        ELSE /\ users' = users \o ProjectUsers(data)
                             /\ page' = page + 1
                             /\ delivered' = [delivered EXCEPT
                                   !.stargazers = @ \o [i \in DOMAIN data |-> data[i].login]]
                             /\ UNCHANGED <<pc, result, raised, pending, enriched>>
    /\ UNCHANGED <<entry, args, calls, slept, section, max_pages, userVars>>

\* github_client.py:278-296: one turn of the loop of _paginate_users
PaginateUsers ==
    /\ pc = "paginate"
    /\ section = "stargazers"
    /\ IF TruthyInt(max_pages) /\ page > max_pages[1]
       THEN /\ ReturnList(users)
            /\ users' = <<>>
            /\ UNCHANGED <<page, requests, delivered>>
       ELSE \E status \in Statuses :
              IF ~Succeeds(status)
              THEN /\ requests' = Append(requests,
                          Req("stargazers", section, page, "", 0, status, 0, None))
                   /\ RaiseList(RequestError(status))
                   /\ users' = <<>>
                   /\ UNCHANGED <<page, delivered>>
              ELSE \E data \in UserPages :
                     /\ requests' = Append(requests,
                          Req("stargazers", section, page, "", 0, status, Len(data), None))
                     /\ IF data = <<>>
                        THEN /\ ReturnList(users)
                             /\ users' = <<>>
                             /\ UNCHANGED <<page, delivered>>
                        ELSE /\ users' = users \o ProjectUsers(data)
                             /\ page' = page + 1
                             /\ delivered' = [delivered EXCEPT
                                   !.stargazers = @ \o [i \in DOMAIN data |-> data[i].login]]
                             /\ UNCHANGED <<pc, result, raised, pending, enriched>>
    /\ UNCHANGED <<entry, args, calls, slept, section, max_pages, userVars>>

\* mutant: get_forks does not test the page ceiling
GetForks_IgnoresCeiling ==
    /\ pc = "paginate"
    /\ section = "forkers"
    /\ \E status \in Statuses :
         IF ~Succeeds(status)
         THEN /\ requests' = Append(requests,
                     Req("forks", section, page, "", 0, status, 0, None))
              /\ RaiseList(RequestError(status))
              /\ users' = <<>>
              /\ UNCHANGED <<page, delivered>>
         ELSE \E data \in ForkPages :
                /\ requests' = Append(requests,
                     Req("forks", section, page, "", 0, status, Len(data), None))
                /\ IF data = <<>>
                   THEN /\ ReturnList(users)
                        /\ users' = <<>>
                        /\ UNCHANGED <<page, delivered>>
                   ELSE /\ users' = users \o ProjectForks(data)
                        /\ page' = page + 1
                        /\ delivered' = [delivered EXCEPT
                              !.forkers = @ \o [i \in DOMAIN data |-> data[i].owner.login]]
                        /\ UNCHANGED <<pc, result, raised, pending, enriched>>
    /\ UNCHANGED <<entry, args, calls, slept, section, max_pages, userVars>>

\* github_client.py:240-260: one turn of the loop of get_forks
GetForks ==
    /\ pc = "paginate"
    /\ section = "forkers"
    /\ IF TruthyInt(max_pages) /\ page > max_pages[1]
       THEN /\ ReturnList(users)
            /\ users' = <<>>
            /\ UNCHANGED <<page, requests, delivered>>
       ELSE \E status \in Statuses :
              IF ~Succeeds(status)
              THEN /\ requests' = Append(requests,
                          Req("forks", section, page, "", 0, status, 0, None))
                   /\ RaiseList(RequestError(status))
                   /\ users' = <<>>
                   /\ UNCHANGED <<page, delivered>>
              ELSE \E data \in ForkPages :
                     /\ requests' = Append(requests,
                          Req("forks", section, page, "", 0, status, Len(data), None))
                     /\ IF data = <<>>
                        THEN /\ ReturnList(users)
                             /\ users' = <<>>
                             /\ UNCHANGED <<page, delivered>>
                        ELSE /\ users' = users \o ProjectForks(data)
                             /\ page' = page + 1
                             /\ delivered' = [delivered EXCEPT
                                   !.forkers = @ \o [i \in DOMAIN data |-> data[i].owner.login]]
                             /\ UNCHANGED <<pc, result, raised, pending, enriched>>
    /\ UNCHANGED <<entry, args, calls, slept, section, max_pages, userVars>>


(***************************************************************************)
(* get_user_info and the e-mail discovery (github_client.py:140-207,       *)
(* 300-407).                                                                *)
(***************************************************************************)
GetUser == "get_user_info"

\* events in an events response / commits in an event or a commit list
MaxEvents == 2
MaxCommits == 1

\* a strategy called on its own: _extract_email_from_commits(username), ...
Strategies ==
    {"_extract_email_from_commits", "_extract_email_from_events",
     "_extract_email_from_user_repos"}

\* commits in an event or a commit list, for a strategy called on its own
MaxScan == 2

GoodEmail    == <<"j","@","x">>
OtherEmail   == <<"k","@","y">>
NoreplyEmail == <<"f">> \o NoreplySuffix
ProfileEmail == <<"p","@","x">>


JaneEmail           == <<"j","a","n","e","@","e","x","a","m","p","l","e",".","c","o","m">>
FooNoreplyEmail     == <<"f","o","o">> \o NoreplySuffix
NoreplyCompanyEmail == <<"n","o","r","e","p","l","y","@","c","o","m","p","a","n","y",".","c","o","m">>
NoAtText            == <<"j","a","n","e",".","e","x","a","m","p","l","e",".","c","o","m">>

\* the author e-mail of a commit: missing, or some text
CandidateEmails ==
    IF entry = Extract THEN {None, Some(GoodEmail), Some(NoreplyEmail)}
    ELSE IF entry \in Strategies
    THEN {None, Some(<<>>), Some(GoodEmail), Some(JaneEmail),
          Some(FooNoreplyEmail), Some(NoreplyCompanyEmail), Some(NoAtText)}
    ELSE {None, Some(GoodEmail), Some(OtherEmail), Some(NoreplyEmail)}

\* data["email"] of a profile response
ProfileEmails ==
    IF entry = Extract THEN {None, Some(ProfileEmail)}
    ELSE {None, Some(<<>>), Some(ProfileEmail)}

CommitLists ==
    SeqsUpTo(CandidateEmails, IF entry \in Strategies THEN MaxScan ELSE MaxCommits)

EventTypes == {"PushEvent", "CreateEvent"}

EventLists ==
    SeqsUpTo([type : EventTypes, commits : CommitLists],
             IF entry = Extract \/ entry \in Strategies THEN 1 ELSE MaxEvents)

\* the user whose profile is being fetched
Username ==
    IF entry = Extract THEN pending[Len(enriched) + 1].login ELSE args.username

\* a /users/{u}/repos response: each repository with its owner and a name
RepoLists ==
    {[i \in DOMAIN o |-> [owner |-> [login |-> o[i]], name |-> i]] :
        o \in SeqsUpTo({Username, Octocat},
                       IF entry = Extract THEN MaxReposExtract ELSE MaxRepos)}

\* Python truthiness of an optional text: None and "" are false
TruthyText(o) == o # None /\ o[1] # <<>>

\* the first commit author e-mail, in scan order, that passes the filter
\* (github_client.py:317-326, 353-361, 390-398)
RECURSIVE FirstAccepted(_)
FirstAccepted(commits) ==
    IF commits = <<>> THEN None
    ELSE IF TruthyText(Head(commits)) /\ AcceptEmail(Head(commits)[1])
         THEN Head(commits)
         ELSE FirstAccepted(Tail(commits))

\* github_client.py:314-328: the scan of the PushEvent entries
RECURSIVE EmailFromPushEvents(_)
EmailFromPushEvents(events) ==
    IF events = <<>> THEN None
    ELSE LET here == IF Head(events).type = "PushEvent"
                     THEN FirstAccepted(Head(events).commits)
                     ELSE None
         IN IF here # None THEN here ELSE EmailFromPushEvents(Tail(events))

\* github_client.py:348-363: the scan of the CreateEvent entries with commits
RECURSIVE EmailFromCreateEvents(_)
EmailFromCreateEvents(events) ==
    IF events = <<>> THEN None
    ELSE LET here == IF /\ Head(events).type = "CreateEvent"
                        /\ Head(events).commits # <<>>
                     THEN FirstAccepted(Head(events).commits)
                     ELSE None
         IN IF here # None THEN here ELSE EmailFromCreateEvents(Tail(events))

\* the trace entry of a /users/{u}/repos response, with the owner login of
\* every repository it lists, in the order of the response
ReposReq(status, data) ==
    Req("user_repos", section, 0, Username, 0, status, Len(data), None)
        @@ [owners |-> [i \in DOMAIN data |-> data[i].owner.login]]

\* github_client.py:383-384: the next of repos[:3] after `from` owned by `u`
NextOwned(rs, from, u) ==
    LET owned == {i \in (from + 1)..Len(rs) : rs[i].owner.login = u}
    IN IF owned = {} THEN 0 ELSE CHOOSE i \in owned : \A j \in owned : i <= j


\* mutant: the enriched record is put in front of the accumulated ones
ReturnUser_Prepend(user) ==
    IF entry = Extract
    THEN LET done == <<user>> \o enriched IN
         IF Len(done) = Len(pending)
         THEN ReturnSection(done)
         ELSE /\ enriched' = done
              /\ pc' = "user_profile"
              /\ UNCHANGED <<result, raised, pending>>
    ELSE /\ result' = Some(user)
         /\ pc' = "done"
         /\ UNCHANGED <<raised, pending, enriched>>

\* get_user_info returned `user` (github_client.py:191-207)
ReturnUser(user) ==
    IF entry = Extract
    THEN LET done == Append(enriched, user) IN
         IF Len(done) = Len(pending)
         THEN ReturnSection(done)
         ELSE /\ enriched' = done
              /\ pc' = "user_profile"
              /\ UNCHANGED <<result, raised, pending>>
    ELSE /\ result' = Some(user)
         /\ pc' = "done"
         /\ UNCHANGED <<raised, pending, enriched>>


\* mutant: no handler around the per-user fetch, its error leaves the section
RaiseUser_Abort(err) ==
    IF entry = Extract
    THEN FailSection
    ELSE /\ raised' = Some(err)
         /\ pc' = "done"
         /\ UNCHANGED <<result, pending, enriched>>

\* get_user_info raised `err`; in an extraction extractor.py:175-177 /
\* 221-223 keeps the minimal record
RaiseUser(err) ==
    IF entry = Extract
    THEN ReturnUser(pending[Len(enriched) + 1])
    ELSE /\ raised' = Some(err)
         /\ pc' = "done"
         /\ UNCHANGED <<result, pending, enriched>>

\* mutant: the discovery runs whatever the aggressive_email_extraction flag
GetUserInfo_AlwaysDiscover ==
    /\ pc = "user_profile"
    /\ \E status \in Statuses :
         IF ~Succeeds(status)
         THEN /\ requests' = Append(requests,
                     Req("user", section, 0, Username, 0, status, 0, None))
              /\ RaiseUser(RequestError(status))
         ELSE \E email \in ProfileEmails :
                /\ requests' = Append(requests,
                       Req("user", section, 0, Username, 0, status, 0, email))
                /\ IF ~TruthyText(email)
                   THEN /\ pc' = "email_commits"
                        /\ UNCHANGED <<result, raised, pending, enriched>>
                   ELSE ReturnUser(DetailedUser(Username, email))
    /\ UNCHANGED <<entry, args, calls, slept, section, pagVars, userVars, delivered>>

\* github_client.py:150-157 (and extractor.py:171-173): the profile request
GetUserInfo ==
    /\ pc = "user_profile"
    /\ \E status \in Statuses :
         IF ~Succeeds(status)
         THEN /\ requests' = Append(requests,
                     Req("user", section, 0, Username, 0, status, 0, None))
              /\ RaiseUser(RequestError(status))
         ELSE \E email \in ProfileEmails :
                /\ requests' = Append(requests,
                       Req("user", section, 0, Username, 0, status, 0, email))
                /\ IF ~TruthyText(email) /\ args.aggressive_email_extraction
                   THEN /\ pc' = "email_commits"
                        /\ UNCHANGED <<result, raised, pending, enriched>>
                   ELSE ReturnUser(DetailedUser(Username, email))
    /\ UNCHANGED <<entry, args, calls, slept, section, pagVars, userVars, delivered>>


\* mutant: the second strategy is tried whatever the first one found
ExtractEmailFromCommits_NoStop ==
    /\ pc = "email_commits"
    /\ \E status \in Statuses :
         LET Step(items, email) ==
               /\ requests' = Append(requests,
                      Req("events", section, 0, Username, 0, status, items, email))
               /\ pc' = "email_events"
               /\ UNCHANGED <<result, raised, pending, enriched>>
         IN IF ~Succeeds(status)
            THEN Step(0, None)
            ELSE \E events \in EventLists :
                   Step(Len(events), EmailFromPushEvents(events))
    /\ UNCHANGED <<entry, args, calls, slept, section, pagVars, userVars, delivered>>

\* github_client.py:160-166 and 309-332: first strategy, the events stream
ExtractEmailFromCommits ==
    /\ pc = "email_commits"
    /\ \E status \in Statuses :
         LET Step(items, email) ==
               /\ requests' = Append(requests,
                      Req("events", section, 0, Username, 0, status, items, email))
               /\ IF TruthyText(email)
                  THEN ReturnUser(DetailedUser(Username, email))
                  ELSE /\ pc' = "email_events"
                       /\ UNCHANGED <<result, raised, pending, enriched>>
         IN IF ~Succeeds(status)
            THEN Step(0, None)
            ELSE \E events \in EventLists :
                   Step(Len(events), EmailFromPushEvents(events))
    /\ UNCHANGED <<entry, args, calls, slept, section, pagVars, userVars, delivered>>

\* mutant: the second strategy has no handler, its failed request leaves
\* get_user_info as an error
ExtractEmailFromEvents_Propagates ==
    /\ pc = "email_events"
    /\ \E status \in Statuses :
         LET Step(items, email) ==
               /\ requests' = Append(requests,
                      Req("events_public", section, 0, Username, 0, status, items, email))
               /\ IF TruthyText(email)
                  THEN ReturnUser(DetailedUser(Username, email))
                  ELSE /\ pc' = "email_repos"
                       /\ UNCHANGED <<result, raised, pending, enriched>>
         IN IF ~Succeeds(status)
            THEN /\ requests' = Append(requests,
                        Req("events_public", section, 0, Username, 0, status, 0, None))
                 /\ RaiseUser(RequestError(status))
            ELSE \E events \in EventLists :
                   Step(Len(events), EmailFromCreateEvents(events))
    /\ UNCHANGED <<entry, args, calls, slept, section, pagVars, userVars, delivered>>

\* github_client.py:169-175 and 343-367: second strategy, the public events
ExtractEmailFromEvents ==
    /\ pc = "email_events"
    /\ \E status \in Statuses :
         LET Step(items, email) ==
               /\ requests' = Append(requests,
                      Req("events_public", section, 0, Username, 0, status, items, email))
               /\ IF TruthyText(email)
                  THEN ReturnUser(DetailedUser(Username, email))
                  ELSE /\ pc' = "email_repos"
                       /\ UNCHANGED <<result, raised, pending, enriched>>
         IN IF ~Succeeds(status)
            THEN Step(0, None)
            ELSE \E events \in EventLists :
                   Step(Len(events), EmailFromCreateEvents(events))
    /\ UNCHANGED <<entry, args, calls, slept, section, pagVars, userVars, delivered>>

\* mutant: a failed repository-list request of the third strategy is raised
ExtractEmailFromUserRepos_Raises ==
    /\ pc = "email_repos"
    /\ \E status \in Statuses :
         IF ~Succeeds(status)
         THEN /\ requests' = Append(requests,
                     Req("user_repos", section, 0, Username, 0, status, 0, None))
              /\ RaiseUser(RequestError(status))
              /\ UNCHANGED userVars
         ELSE \E data \in RepoLists :
                LET first3 == SliceTo(data, 3)
                    i == NextOwned(first3, 0, Username)
                IN /\ requests' = Append(requests,
                          ReposReq(status, data))
                   /\ IF i = 0
                      THEN /\ ReturnUser(DetailedUser(Username, None))
                           /\ UNCHANGED userVars
                      ELSE /\ repos' = first3
                           /\ repo_i' = i
                           /\ pc' = "email_repo_commits"
                           /\ UNCHANGED <<result, raised, pending, enriched>>
    /\ UNCHANGED <<entry, args, calls, slept, section, pagVars, delivered>>

\* github_client.py:178-184 and 378-384: third strategy, the repository list
ExtractEmailFromUserRepos ==
    /\ pc = "email_repos"
    /\ \E status \in Statuses :
         IF ~Succeeds(status)
         THEN /\ requests' = Append(requests,
                     Req("user_repos", section, 0, Username, 0, status, 0, None))
              /\ ReturnUser(DetailedUser(Username, None))
              /\ UNCHANGED userVars
         ELSE \E data \in RepoLists :
                LET first3 == SliceTo(data, 3)
                    i == NextOwned(first3, 0, Username)
                IN /\ requests' = Append(requests,
                          ReposReq(status, data))
                   /\ IF i = 0
                      THEN /\ ReturnUser(DetailedUser(Username, None))
                           /\ UNCHANGED userVars
                      ELSE /\ repos' = first3
                           /\ repo_i' = i
                           /\ pc' = "email_repo_commits"
                           /\ UNCHANGED <<result, raised, pending, enriched>>
    /\ UNCHANGED <<entry, args, calls, slept, section, pagVars, delivered>>

\* mutant: a failed commit-list request ends the strategy
ExtractEmailFromRepoCommits_StopsOnFailure ==
    /\ pc = "email_repo_commits"
    /\ \E status \in Statuses :
         LET Step(items, email) ==
               /\ requests' = Append(requests,
                      Req("commits", section, 0, Username, repos[repo_i].name,
                          status, items, email))
               /\ IF email # None
                  THEN /\ ReturnUser(DetailedUser(Username, email))
                       /\ repos' = <<>>
                       /\ repo_i' = 0
                  ELSE LET j == NextOwned(repos, repo_i, Username) IN
                       IF j = 0
                       THEN /\ ReturnUser(DetailedUser(Username, None))
                            /\ repos' = <<>>
                            /\ repo_i' = 0
                       ELSE /\ repo_i' = j
                            /\ UNCHANGED <<pc, repos, result, raised, pending,
                                           enriched>>
         IN IF ~Succeeds(status)
            THEN /\ requests' = Append(requests,
                      Req("commits", section, 0, Username, repos[repo_i].name,
                          status, 0, None))
                 /\ ReturnUser(DetailedUser(Username, None))
                 /\ repos' = <<>>
                 /\ repo_i' = 0
            ELSE \E commits \in CommitLists :
                   Step(Len(commits), FirstAccepted(commits))
    /\ UNCHANGED <<entry, args, calls, slept, section, pagVars, delivered>>

\* github_client.py:385-403: the commit list of one owned repository
ExtractEmailFromRepoCommits ==
    /\ pc = "email_repo_commits"
    /\ \E status \in Statuses :
         LET Step(items, email) ==
               /\ requests' = Append(requests,
                      Req("commits", section, 0, Username, repos[repo_i].name,
                          status, items, email))
               /\ IF email # None
                  THEN /\ ReturnUser(DetailedUser(Username, email))
                       /\ repos' = <<>>
                       /\ repo_i' = 0
                  ELSE LET j == NextOwned(repos, repo_i, Username) IN
                       IF j = 0
                       THEN /\ ReturnUser(DetailedUser(Username, None))
                            /\ repos' = <<>>
                            /\ repo_i' = 0
                       ELSE /\ repo_i' = j
                            /\ UNCHANGED <<pc, repos, result, raised, pending,
                                           enriched>>
         IN IF ~Succeeds(status)
            THEN Step(0, None)
            ELSE \E commits \in CommitLists :
                   Step(Len(commits), FirstAccepted(commits))
    /\ UNCHANGED <<entry, args, calls, slept, section, pagVars, delivered>>

(***************************************************************************)
(* The strategies called on their own (github_client.py:300-407): each     *)
(* returns the e-mail it found, or None.                                    *)
(***************************************************************************)
\* github_client.py:309-332: _extract_email_from_commits(username)
StrategyCommits ==
    /\ pc = "strategy_commits"
    /\ \E status \in Statuses :
         LET Return(items, email) ==
               /\ requests' = Append(requests,
                      Req("events", section, 0, Username, 0, status, items, email))
               /\ result' = Some(email)
               /\ pc' = "done"
         IN IF ~Succeeds(status)
            THEN Return(0, None)
            ELSE \E events \in EventLists :
                   Return(Len(events), EmailFromPushEvents(events))
    /\ UNCHANGED <<entry, args, calls, slept, section, pagVars, pending, enriched, userVars,
                   raised, delivered>>

\* github_client.py:343-367: _extract_email_from_events(username)
StrategyEvents ==
    /\ pc = "strategy_events"
    /\ \E status \in Statuses :
         LET Return(items, email) ==
               /\ requests' = Append(requests,
                      Req("events_public", section, 0, Username, 0, status, items, email))
               /\ result' = Some(email)
               /\ pc' = "done"
         IN IF ~Succeeds(status)
            THEN Return(0, None)
            ELSE \E events \in EventLists :
                   Return(Len(events), EmailFromCreateEvents(events))
    /\ UNCHANGED <<entry, args, calls, slept, section, pagVars, pending, enriched, userVars,
                   raised, delivered>>

\* mutant: the owner filter is applied before the slice, so the first three
\* owned repositories of the whole response are inspected
StrategyUserRepos_FilterThenSlice ==
    /\ pc = "strategy_repos"
    /\ \E status \in Statuses :
         IF ~Succeeds(status)
         THEN /\ requests' = Append(requests,
                     Req("user_repos", section, 0, Username, 0, status, 0, None))
              /\ result' = Some(None)
              /\ pc' = "done"
              /\ UNCHANGED userVars
         ELSE \E data \in RepoLists :
                LET owned == SelectSeq(data, LAMBDA r : r.owner.login = Username)
                    first3 == SliceTo(owned, 3)
                IN /\ requests' = Append(requests, ReposReq(status, data))
                   /\ IF first3 = <<>>
                      THEN /\ result' = Some(None)
                           /\ pc' = "done"
                           /\ UNCHANGED userVars
                      ELSE /\ repos' = first3
                           /\ repo_i' = 1
                           /\ pc' = "strategy_repo_commits"
                           /\ UNCHANGED result
    /\ UNCHANGED <<entry, args, calls, slept, section, pagVars, pending, enriched, raised,
                   delivered>>

\* github_client.py:378-384 and 403-407: _extract_email_from_user_repos(username),
\* its repository-list request
StrategyUserRepos ==
    /\ pc = "strategy_repos"
    /\ \E status \in Statuses :
         IF ~Succeeds(status)
         THEN /\ requests' = Append(requests,
                     Req("user_repos", section, 0, Username, 0, status, 0, None))
              /\ result' = Some(None)
              /\ pc' = "done"
              /\ UNCHANGED userVars
         ELSE \E data \in RepoLists :
                LET first3 == SliceTo(data, 3)
                    i == NextOwned(first3, 0, Username)
                IN /\ requests' = Append(requests,
                          ReposReq(status, data))
                   /\ IF i = 0
                      THEN /\ result' = Some(None)
                           /\ pc' = "done"
                           /\ UNCHANGED userVars
                      ELSE /\ repos' = first3
                           /\ repo_i' = i
                           /\ pc' = "strategy_repo_commits"
                           /\ UNCHANGED result
    /\ UNCHANGED <<entry, args, calls, slept, section, pagVars, pending, enriched, raised,
                   delivered>>

\* github_client.py:385-403: the commit list of one owned repository
StrategyRepoCommits ==
    /\ pc = "strategy_repo_commits"
    /\ \E status \in Statuses :
         LET Step(items, email) ==
               /\ requests' = Append(requests,
                      Req("commits", section, 0, Username, repos[repo_i].name,
                          status, items, email))
               /\ IF email # None
                  THEN /\ result' = Some(email)
                       /\ pc' = "done"
                       /\ repos' = <<>>
                       /\ repo_i' = 0
                  ELSE LET j == NextOwned(repos, repo_i, Username) IN
                       IF j = 0
                       THEN /\ result' = Some(None)
                            /\ pc' = "done"
                            /\ repos' = <<>>
                            /\ repo_i' = 0
                       ELSE /\ repo_i' = j
                            /\ UNCHANGED <<pc, repos, result>>
         IN IF ~Succeeds(status)
            THEN Step(0, None)
            ELSE \E commits \in CommitLists :
                   Step(Len(commits), FirstAccepted(commits))
    /\ UNCHANGED <<entry, args, calls, slept, section, pagVars, pending, enriched, raised,
                   delivered>>

(***************************************************************************)
(* The transport itself: _make_request over the session of _create_session *)
(* (github_client.py:45-112).  Here every attempt that goes over the wire  *)
(* is one step and one entry of `requests`; the retry policy mounted on    *)
(* the session re-issues an attempt before _make_request sees a response.  *)
(***************************************************************************)
MakeRequest == "_make_request"

\* config.py:22
MAX_RETRIES == 3

\* github_client.py:52
status_forcelist == {429, 500, 502, 503, 504}

\* what one attempt can meet: no response at all, or a response status
WireStatuses == {ConnectionFailure, 200, 403, 404, 413, 422, 429, 503}

\* github_client.py:89: int(time.time()) when the 429 response is handled
current_time == 1000

\* the X-RateLimit-Reset header of a 429 response: missing, or epoch seconds
ResetHeaders ==
    {None, Some(current_time - 100), Some(current_time + 30),
     Some(current_time + 61), Some(current_time + 3600)}

Endpoints == {"/repos/octocat/hello", "/test"}

\* the token argument of GitHubClient(token) (github_client.py:33)
CtorTokens == {None, Some(""), Some("T")}

\* config.py:18: the class attribute Config.GITHUB_TOKEN, read from the
\* environment when the module is imported
EnvTokens == {None, Some("E")}

\* Python truthiness of an optional string
TruthyToken(o) == o # None /\ o[1] # ""

\* github_client.py:39-41: self.config.GITHUB_TOKEN after __init__; the
\* assignment creates an attribute of the instance self.config
InstanceToken(token, class_token) ==
    IF TruthyToken(token) THEN token ELSE class_token

\* config.py:31-42: get_headers is a classmethod, so cls.GITHUB_TOKEN is the
\* attribute of the class Config also when called as self.config.get_headers()
get_headers(class_token) ==
    [Accept        |-> "application/vnd.github.v3+json",
     UserAgent     |-> "Stargazer/0.1.0",
     Authorization |-> IF TruthyToken(class_token)
                       THEN Some(<<"token", class_token[1]>>)
                       ELSE None]

\* one attempt on the wire, the headers it carried and what it met
Attempt(endpoint, headers, status, reset, has_retry_after) ==
    [ep |-> endpoint, headers |-> headers, status |-> status, reset |-> reset,
     retry_after |-> has_retry_after]

\* Retry.RETRY_AFTER_STATUS_CODES of the retry policy built at
\* github_client.py:49-53 (respect_retry_after_header keeps its default)
RETRY_AFTER_STATUS_CODES == {413, 429, 503}

\* mutant: every response that is not a success is sent again
is_retry_AnyFailure(status, has_retry_after, total) == ~Succeeds(status)

\* Retry(total=MAX_RETRIES, status_forcelist=...).is_retry for a GET: a
\* response is sent again when its status is in the forcelist, or when it
\* carries a Retry-After header, its status is one of the Retry-After
\* statuses and `total` retries are left
is_retry(status, has_retry_after, total) ==
    \/ status \in status_forcelist
    \/ (total > 0 /\ has_retry_after /\ status \in RETRY_AFTER_STATUS_CODES)

\* github_client.py:88-90
wait_time(reset) ==
    LET reset_time == IF reset = None THEN 0 ELSE reset[1]
    IN Max(reset_time - current_time, 60)

\* github_client.py:87-112: the exception _make_request raises for a response
\* status handed to it, or for an exception of session.get
MakeRequestError(status, endpoint, reset) ==
    [type     |-> RequestError(status).type,
     msg      |-> RequestError(status).msg,
     endpoint |-> IF status \in {403, 404} THEN Some(endpoint) ELSE None,
     code     |-> IF status \in {ConnectionFailure, 403, 404, 429} THEN None
                  ELSE Some(status),
     wait     |-> IF status = 429 THEN Some(wait_time(reset)) ELSE None]

\* github_client.py:78-112 over 49-57: one attempt of session.get and what
\* follows it
SessionGet ==
    /\ pc = "request"
    /\ \E status \in WireStatuses :
       \E reset \in (IF status = 429 THEN ResetHeaders ELSE {None}) :
       \* a Retry-After header only decides for a status outside the forcelist
       \E has_retry_after \in (IF status = 413 THEN BOOLEAN ELSE {FALSE}) :
         LET total == MAX_RETRIES - Len(requests) IN
         /\ requests' = Append(requests,
                Attempt(args.endpoint, get_headers(args.env_token), status, reset,
                        has_retry_after))
         /\ IF status = ConnectionFailure \/ is_retry(status, has_retry_after, total)
            THEN IF total > 0
                 THEN \* the retry policy sends the request again
                      UNCHANGED <<pc, result, raised>>
                 ELSE \* retries exhausted: session.get raises a
                      \* RequestException (RetryError, ConnectionError)
                      /\ raised' = Some(MakeRequestError(ConnectionFailure,
                                                         args.endpoint, None))
                      /\ pc' = "done"
                      /\ UNCHANGED result
            ELSE \* the response reaches _make_request
                 IF status = 429 \/ ~Succeeds(status)
                 THEN /\ raised' = Some(MakeRequestError(status, args.endpoint, reset))
                      /\ pc' = "done"
                      /\ UNCHANGED result
                 ELSE \* raise_for_status() passes
                      /\ pc' = "pace"
                      /\ UNCHANGED <<result, raised>>
    /\ UNCHANGED <<entry, args, calls, slept, section, pagVars, pending, enriched, userVars,
                   delivered>>

\* mutant: the delay is taken twice
Pace_Twice ==
    /\ pc = "pace"
    /\ slept' = slept + 2
    /\ pc' = "decode"
    /\ UNCHANGED <<entry, args, calls, section, pagVars, pending, enriched, userVars,
                   result, raised, requests, delivered>>

\* github_client.py:98-99: time.sleep(0.1) after a successful response
Pace ==
    /\ pc = "pace"
    /\ slept' = slept + 1
    /\ pc' = "decode"
    /\ UNCHANGED <<entry, args, calls, section, pagVars, pending, enriched, userVars,
                   result, raised, requests, delivered>>

\* github_client.py:101: return response.json()
ReturnJson ==
    /\ pc = "decode"
    /\ result' = Some("json")
    /\ pc' = "done"
    /\ UNCHANGED <<entry, args, calls, section, pagVars, pending, enriched, userVars,
                   raised, requests, delivered, slept>>

(***************************************************************************)
(* _parse_repo_identifier (extractor.py:99-135).  Identifiers are           *)
(* sequences of one-character strings.                                      *)
(***************************************************************************)
ParseRepo == "_parse_repo_identifier"

\* characters str.strip() removes
Whitespace == {" ", "\t", "\n"}

RECURSIVE LStrip(_, _)
LStrip(s, cs) ==
    IF s # <<>> /\ Head(s) \in cs THEN LStrip(Tail(s), cs) ELSE s

RECURSIVE RStrip(_, _)
RStrip(s, cs) ==
    IF s # <<>> /\ s[Len(s)] \in cs
    THEN RStrip(SubSeq(s, 1, Len(s) - 1), cs)
    ELSE s

\* str.strip(): both ends
Strip(s, cs) == RStrip(LStrip(s, cs), cs)

\* the first position from `from` on that holds one of `cs`; Len(s) + 1 if none
FindAny(s, cs, from) ==
    LET hits == {i \in from..Len(s) : s[i] \in cs}
    IN IF hits = {} THEN Len(s) + 1
       ELSE CHOOSE i \in hits : \A j \in hits : i <= j

\* str.split(c)
RECURSIVE Split(_, _)
Split(s, c) ==
    LET i == FindAny(s, {c}, 1)
    IN IF i > Len(s) THEN <<s>>
       ELSE <<SubSeq(s, 1, i - 1)>> \o Split(SubSeq(s, i + 1, Len(s)), c)

HttpPrefix  == <<"h","t","t","p",":","/","/">>
HttpsPrefix == <<"h","t","t","p","s",":","/","/">>
GitHubHost  == <<"g","i","t","h","u","b",".","c","o","m">>

\* urllib.parse.urlparse on a text that starts with http:// or https://:
\* netloc runs from after "//" to the first "/", "?" or "#"; the path from
\* there to the first "?" or "#", less the ";params" of its last segment
urlparse(url) ==
    LET start     == FindAny(url, {":"}, 1) + 3
        netlocEnd == FindAny(url, {"/", "?", "#"}, start)
        pathEnd   == FindAny(url, {"?", "#"}, netlocEnd)
        raw       == SubSeq(url, netlocEnd, pathEnd - 1)
        slashes   == {i \in 1..Len(raw) : raw[i] = "/"}
        lastSlash == IF slashes = {} THEN 1
                     ELSE CHOOSE i \in slashes : \A j \in slashes : j <= i
        semi      == FindAny(raw, {";"}, lastSlash)
    IN [netloc |-> SubSeq(url, start, netlocEnd - 1),
        path   |-> SubSeq(raw, 1, semi - 1)]

ValueError(msg) == [type |-> "ValueError", msg |-> msg]

\* extractor.py:111-135: the pair returned, or the error raised
parse_repo_identifier(repo_identifier) ==
    LET stripped == Strip(repo_identifier, Whitespace) IN
    IF StartsWith(stripped, HttpPrefix) \/ StartsWith(stripped, HttpsPrefix)
    THEN LET parsed     == urlparse(stripped)
             path_parts == Split(Strip(parsed.path, {"/"}), "/")
         IN IF parsed.netloc # GitHubHost
            THEN [raised |-> Some(ValueError("Only GitHub repositories are supported")),
                  result |-> None]
            ELSE IF Len(path_parts) < 2
            THEN [raised |-> Some(ValueError("Invalid GitHub repository URL")),
                  result |-> None]
            ELSE [raised |-> None,
                  result |-> Some(<<path_parts[1], path_parts[2]>>)]
    ELSE IF Contains(stripped, "/")
    THEN LET parts == Split(stripped, "/")
         IN IF Len(parts) # 2
            THEN [raised |-> Some(ValueError("Invalid repository format")),
                  result |-> None]
            ELSE [raised |-> None, result |-> Some(<<parts[1], parts[2]>>)]
    ELSE [raised |-> Some(ValueError("Invalid repository identifier")),
          result |-> None]

\* path segments after the host in a URL given to the parser
MaxSegments == 4
\* characters of a bare identifier given to the parser
MaxBare == 4

\* owner and repository names
ShortName == <<"a">>
LongName  == <<"b","-","c",".","d">>
Names == {ShortName, LongName}

\* /seg/seg/... for each list of segments (an empty segment gives "//")
RECURSIVE JoinPath(_)
JoinPath(segs) ==
    IF segs = <<>> THEN <<>>
    ELSE <<"/">> \o Head(segs) \o JoinPath(Tail(segs))

UrlSchemes == {HttpPrefix, HttpsPrefix}

UrlHosts ==
    {GitHubHost, <<"g","i","t","l","a","b",".","c","o","m">>, <<"w","w","w",".","g","i","t","h","u","b",".","c","o","m">>, <<"g","i","t","h","u","b",".","c","o","m",":","4","4","3">>, <<>>}

UrlTails == {<<>>, <<"/">>, <<"?","a">>, <<"#","a","/","b">>, <<";","a">>}

UrlInputs ==
    {sch \o host \o JoinPath(segs) \o tail :
        sch \in UrlSchemes, host \in UrlHosts,
        segs \in SeqsUpTo(Names \cup {<<>>}, MaxSegments), tail \in UrlTails}

BareInputs == SeqsUpTo({"a", "b", "/", " "}, MaxBare)

NamedInputs == {o \o <<"/">> \o r : o \in Names, r \in Names}

\* whitespace around the identifier
LeftPads  == {<<>>, <<" ">>}
RightPads == {<<>>, <<"\n">>}

RepoIdentifiers ==
    {l \o t \o r : l \in LeftPads, r \in RightPads,
                   t \in UrlInputs \cup BareInputs \cup NamedInputs}

\* mutant: the bare form is split at its first "/" only, whatever follows
ParseRepoIdentifier_FirstSlash ==
    /\ pc = "resolve"
    /\ LET stripped == Strip(args.repo_identifier, Whitespace)
           i == FindAny(stripped, {"/"}, 1)
           out == parse_repo_identifier(args.repo_identifier)
       IN IF ~StartsWith(stripped, HttpPrefix) /\ ~StartsWith(stripped, HttpsPrefix)
             /\ Contains(stripped, "/")
          THEN /\ result' = Some(<<SubSeq(stripped, 1, i - 1),
                                   SubSeq(stripped, i + 1, Len(stripped))>>)
               /\ raised' = None
          ELSE /\ result' = out.result
               /\ raised' = out.raised
    /\ pc' = "done"
    /\ UNCHANGED <<entry, args, calls, slept, section, pagVars, pending, enriched, userVars,
                   requests, delivered>>

\* mutant: a URL's owner and repository are its last two path segments
ParseRepoIdentifier_LastSegments ==
    /\ pc = "resolve"
    /\ LET stripped == Strip(args.repo_identifier, Whitespace)
           parts == Split(Strip(urlparse(stripped).path, {"/"}), "/")
           out == parse_repo_identifier(args.repo_identifier)
       IN IF out.result # None
             /\ (StartsWith(stripped, HttpPrefix) \/ StartsWith(stripped, HttpsPrefix))
          THEN /\ result' = Some(<<parts[Len(parts) - 1], parts[Len(parts)]>>)
               /\ raised' = None
          ELSE /\ result' = out.result
               /\ raised' = out.raised
    /\ pc' = "done"
    /\ UNCHANGED <<entry, args, calls, slept, section, pagVars, pending, enriched, userVars,
                   requests, delivered>>

\* extractor.py:99-135: one call of _parse_repo_identifier
ParseRepoIdentifier ==
    /\ pc = "resolve"
    /\ LET out == parse_repo_identifier(args.repo_identifier)
       IN /\ result' = out.result
          /\ raised' = out.raised
    /\ pc' = "done"
    /\ UNCHANGED <<entry, args, calls, slept, section, pagVars, pending, enriched, userVars,
                   requests, delivered>>

(***************************************************************************)
(* Specifications.                                                          *)
(***************************************************************************)
Next ==
    \/ GetRepositoryInfo
    \/ ExtractStargazers
    \/ ExtractForkers
    \/ PaginateUsers
    \/ GetForks
    \/ GetUserInfo
    \/ ExtractEmailFromCommits
    \/ ExtractEmailFromEvents
    \/ ExtractEmailFromUserRepos
    \/ ExtractEmailFromRepoCommits

\* one extract_repository_info call
Spec == Init /\ [][Next]_vars


\* get_stargazers or get_forks is called directly on a fresh client
InitPaginate ==
    /\ entry \in {"get_stargazers", "get_forks"}
    /\ args \in [per_page : {PerPage}, max_pages : PageCeilings]
    /\ pc = "paginate"
    /\ section = (IF entry = "get_stargazers" THEN "stargazers" ELSE "forkers")
    /\ page = 1
    /\ max_pages = args.max_pages
    /\ users = <<>>
    /\ pending = <<>>
    /\ enriched = <<>>
    /\ repos = <<>>
    /\ repo_i = 0
    /\ result = None
    /\ raised = None
    /\ requests = <<>>
    /\ delivered = NoDelivery
    /\ slept = 0
    /\ calls = <<>>

NextPaginate ==
    \/ PaginateUsers
    \/ GetForks

\* one list walk
SpecPaginate == InitPaginate /\ [][NextPaginate]_vars

\* get_user_info is called directly on a fresh client
InitUser ==
    /\ entry = GetUser
    /\ args \in [username : Logins, aggressive_email_extraction : BOOLEAN]
    /\ pc = "user_profile"
    /\ InitCommon

NextUser ==
    \/ GetUserInfo
    \/ ExtractEmailFromCommits
    \/ ExtractEmailFromEvents
    \/ ExtractEmailFromUserRepos
    \/ ExtractEmailFromRepoCommits

\* one get_user_info call
SpecUser == InitUser /\ [][NextUser]_vars

\* one of the strategies is called on its own on a fresh client
InitStrategy ==
    /\ entry \in Strategies
    /\ args \in [username : Logins]
    /\ pc = (IF entry = "_extract_email_from_commits" THEN "strategy_commits"
             ELSE IF entry = "_extract_email_from_events" THEN "strategy_events"
             ELSE "strategy_repos")
    /\ InitCommon

NextStrategy ==
    \/ StrategyCommits
    \/ StrategyEvents
    \/ StrategyUserRepos
    \/ StrategyRepoCommits

\* one call of one e-mail discovery strategy
SpecStrategy == InitStrategy /\ [][NextStrategy]_vars

\* _make_request is called on a fresh client
InitTransport ==
    /\ entry = MakeRequest
    /\ args \in [endpoint : Endpoints, token : CtorTokens, env_token : EnvTokens]
    /\ pc = "request"
    /\ InitCommon

NextTransport ==
    \/ SessionGet
    \/ Pace
    \/ ReturnJson

\* one _make_request call
SpecTransport == InitTransport /\ [][NextTransport]_vars

\* the same call, which is not suspended for ever: every attempt ends, by a
\* response or by the timeout of github_client.py:83, and the caller runs on
SpecTransportFair == SpecTransport /\ WF_vars(NextTransport)

\* _parse_repo_identifier is called on some identifier
InitResolve ==
    /\ entry = ParseRepo
    /\ args \in [repo_identifier : RepoIdentifiers]
    /\ pc = "resolve"
    /\ InitCommon

NextResolve == ParseRepoIdentifier

\* one _parse_repo_identifier call
SpecResolve == InitResolve /\ [][NextResolve]_vars


(***************************************************************************)
(* The page ceiling of a section on its own (extractor.py:157-161 and      *)
(* 203-207), for caps over several pages.                                   *)
(***************************************************************************)
\* the largest cap tried
MaxCount == 95

\* the max_count argument of _extract_stargazers / _extract_forkers
CountInputs == {None} \cup {Some(n) : n \in 0..MaxCount}

\* extractor.py:157-161 / 203-207: per_page = 30 and the ceiling for max_count
ComputeMaxPages ==
    /\ pc = "ceiling"
    /\ max_pages' = MaxPagesFor(args.max_count)
    /\ pc' = "done"
    /\ UNCHANGED <<entry, args, calls, slept, section, page, users, pending, enriched,
                   userVars, result, raised, requests, delivered>>

\* _extract_stargazers or _extract_forkers is entered with some cap
InitCeiling ==
    /\ entry \in {"_extract_stargazers", "_extract_forkers"}
    /\ args \in [max_count : CountInputs]
    /\ pc = "ceiling"
    /\ InitCommon

NextCeiling == ComputeMaxPages

\* the computation of one page ceiling
SpecCeiling == InitCeiling /\ [][NextCeiling]_vars


(***************************************************************************)
(* Calls made one after the other on the same object.  A finished call is  *)
(* kept in `calls`; the upstream answers the requests of the next call as  *)
(* it answered the same requests of the call before.                        *)
(***************************************************************************)
\* what a finished call did and gave
Finished ==
    [entry |-> entry, args |-> args, requests |-> requests, result |-> result,
     raised |-> raised, delivered |-> delivered]

\* what the program reads of the response to a request: everything the trace
\* keeps but the request itself
ResponseOf(r) ==
    [f \in DOMAIN r \ {"ep", "sec", "page", "login", "repo"} |-> r[f]]

\* the n-th request of this call is answered as the n-th request of the call
\* before it was
Replayed ==
    (calls # <<>> /\ requests' # requests) =>
        LET n == Len(requests') IN
        n <= Len(calls[Len(calls)].requests) =>
            ResponseOf(requests'[n]) = ResponseOf(calls[Len(calls)].requests[n])

\* github_client.py:236-238: after get_stargazers has ended, get_forks is
\* called on the same client with the same per_page and max_pages
CallGetForks ==
    /\ entry = "get_stargazers"
    /\ pc = "done"
    /\ calls' = Append(calls, Finished)
    /\ entry' = "get_forks"
    /\ section' = "forkers"
    /\ users' = <<>>
    /\ page' = 1
    /\ max_pages' = args.max_pages
    /\ result' = None
    /\ raised' = None
    /\ requests' = <<>>
    /\ delivered' = NoDelivery
    /\ pc' = "paginate"
    /\ UNCHANGED <<args, slept, pending, enriched, userVars>>

\* a turn of get_forks against the upstream of the walk before
GetForksReplayed == calls # <<>> /\ GetForks /\ Replayed

\* get_stargazers is called on a fresh client
InitWalkPair ==
    /\ entry = "get_stargazers"
    /\ args \in [per_page : {PerPage}, max_pages : PageCeilings]
    /\ pc = "paginate"
    /\ section = "stargazers"
    /\ max_pages = args.max_pages
    /\ page = 1
    /\ users = <<>>
    /\ pending = <<>>
    /\ enriched = <<>>
    /\ repos = <<>>
    /\ repo_i = 0
    /\ result = None
    /\ raised = None
    /\ requests = <<>>
    /\ delivered = NoDelivery
    /\ slept = 0
    /\ calls = <<>>

NextWalkPair ==
    \/ PaginateUsers
    \/ CallGetForks
    \/ GetForksReplayed

\* the user-list walk, then the fork-list walk against the same upstream
SpecWalkPair == InitWalkPair /\ [][NextWalkPair]_vars


\* extractor.py:27-56: extract_repository_info is called again on the same
\* extractor with the same arguments; what the first call left in the
\* variables of the model is not cleared here, only by the code of the call
ExtractAgain ==
    /\ entry = Extract
    /\ pc = "done"
    /\ calls = <<>>
    /\ calls' = Append(calls, Finished)
    /\ result' = None
    /\ raised' = None
    /\ requests' = <<>>
    /\ delivered' = NoDelivery
    /\ pc' = "fetch_repo"
    /\ UNCHANGED <<entry, args, slept, section, pagVars, pending, enriched, userVars>>

\* a step of an extraction; in a second call the upstream answers as before
NextRepeat ==
    \/ GetRepositoryInfo /\ Replayed
    \/ ExtractStargazers /\ Replayed
    \/ ExtractForkers /\ Replayed
    \/ PaginateUsers /\ Replayed
    \/ GetForks /\ Replayed
    \/ GetUserInfo /\ Replayed
    \/ ExtractEmailFromCommits /\ Replayed
    \/ ExtractEmailFromEvents /\ Replayed
    \/ ExtractEmailFromUserRepos /\ Replayed
    \/ ExtractEmailFromRepoCommits /\ Replayed
    \/ ExtractAgain

\* the arguments of the repeated call: every combination of the flags, with
\* no cap or a cap of one record
RepeatArgs == {a \in ExtractArgs : {a.max_stargazers, a.max_forkers} \subseteq {None, Some(1)}}

\* extract_repository_info is called on a fresh extractor
InitRepeat ==
    /\ entry = Extract
    /\ args \in RepeatArgs
    /\ pc = "fetch_repo"
    /\ InitCommon

\* two extract_repository_info calls on one extractor
SpecRepeat == InitRepeat /\ [][NextRepeat]_vars


(***************************************************************************)
(* The rate-limit status query (github_client.py:409-416,                  *)
(* extractor.py:229-235).                                                   *)
(***************************************************************************)
GetRateLimit == "get_rate_limit_status"

\* the largest `remaining` of a /rate_limit body tried
MaxRemaining == 15

\* the decoded body of a /rate_limit response
RateLimitBodies ==
    {[rate |-> [limit |-> l, remaining |-> r, reset |-> t]] :
        l \in {60, 5000}, r \in 0..MaxRemaining,
        t \in {current_time + 60, current_time + 3600}}

\* extractor.py:235: return self.client.get_rate_limit_status()
ExtractorGetRateLimitStatus ==
    /\ pc = "extractor_rate_limit"
    /\ pc' = "rate_limit"
    /\ UNCHANGED <<entry, args, calls, slept, section, pagVars, pending, enriched,
                   userVars, result, raised, requests, delivered>>

\* mutant: the query returns the `rate` member of the body
GetRateLimitStatus_Unwraps ==
    /\ pc = "rate_limit"
    /\ \E status \in Statuses :
         IF ~Succeeds(status)
         THEN /\ requests' = Append(requests,
                     Req("rate_limit", "", 0, "", 0, status, 0, None) @@ [data |-> None])
              /\ raised' = Some(RequestError(status))
              /\ UNCHANGED result
         ELSE \E body \in RateLimitBodies :
                /\ requests' = Append(requests,
                     Req("rate_limit", "", 0, "", 0, status, 0, None)
                         @@ [data |-> Some(body)])
                /\ result' = Some(body.rate)
                /\ UNCHANGED raised
    /\ pc' = "done"
    /\ UNCHANGED <<entry, args, calls, slept, section, pagVars, pending, enriched,
                   userVars, delivered>>

\* github_client.py:415-416: return self._make_request("/rate_limit")
GetRateLimitStatus ==
    /\ pc = "rate_limit"
    /\ \E status \in Statuses :
         IF ~Succeeds(status)
         THEN /\ requests' = Append(requests,
                     Req("rate_limit", "", 0, "", 0, status, 0, None) @@ [data |-> None])
              /\ raised' = Some(RequestError(status))
              /\ UNCHANGED result
         ELSE \E body \in RateLimitBodies :
                /\ requests' = Append(requests,
                     Req("rate_limit", "", 0, "", 0, status, 0, None)
                         @@ [data |-> Some(body)])
                /\ result' = Some(body)
                /\ UNCHANGED raised
    /\ pc' = "done"
    /\ UNCHANGED <<entry, args, calls, slept, section, pagVars, pending, enriched,
                   userVars, delivered>>

\* the query is made on a fresh extractor, or on a fresh client directly
InitRateLimit ==
    /\ entry = GetRateLimit
    /\ args \in [on : {"GitHubExtractor", "GitHubClient"}]
    /\ pc = (IF args.on = "GitHubExtractor" THEN "extractor_rate_limit"
             ELSE "rate_limit")
    /\ InitCommon

NextRateLimit ==
    \/ ExtractorGetRateLimitStatus
    \/ GetRateLimitStatus

\* one rate-limit status query
SpecRateLimit == InitRateLimit /\ [][NextRateLimit]_vars


(***************************************************************************)
(* extract_repository_info from its first statement: the identifier is     *)
(* resolved before the repository is fetched (extractor.py:55-62).          *)
(***************************************************************************)
\* the repo_url arguments tried: bare and URL forms that resolve, and bare
\* strings, URLs and hosts that do not
ExtractUrls ==
    NamedInputs
      \cup {<<>>, ShortName, <<" ">> \o ShortName \o <<"/">> \o LongName \o <<"\n">>,
            ShortName \o <<"/">> \o ShortName \o <<"/">> \o ShortName,
            HttpsPrefix \o GitHubHost \o JoinPath(<<ShortName, LongName>>),
            HttpPrefix \o GitHubHost \o JoinPath(<<LongName, ShortName, ShortName>>),
            HttpsPrefix \o GitHubHost \o JoinPath(<<ShortName>>),
            HttpsPrefix \o GitHubHost,
            HttpsPrefix \o <<"g","i","t","l","a","b",".","c","o","m">>
                \o JoinPath(<<ShortName, LongName>>),
            HttpPrefix \o <<"w","w","w",".">> \o GitHubHost
                \o JoinPath(<<ShortName, LongName>>)}

\* the arguments of these calls: the stargazer section in or out, no caps
ExtractUrlArgs ==
    [repo_url                    : ExtractUrls,
     include_stargazers          : BOOLEAN,
     include_forkers             : {FALSE},
     max_stargazers              : {None},
     max_forkers                 : {None},
     detailed_user_info          : {FALSE},
     aggressive_email_extraction : {FALSE}]

\* mutant: an identifier that does not resolve is passed on as it is
ResolveIdentifier_Lenient ==
    /\ pc = "resolve"
    /\ entry = Extract
    /\ pc' = "fetch_repo"
    /\ UNCHANGED <<entry, args, calls, slept, section, pagVars, pending, enriched,
                   userVars, result, raised, requests, delivered>>

\* extractor.py:55-56: owner, repo_name = self._parse_repo_identifier(repo_url);
\* its ValueError leaves extract_repository_info
ResolveIdentifier ==
    /\ pc = "resolve"
    /\ entry = Extract
    /\ LET out == parse_repo_identifier(args.repo_url)
       IN IF out.raised # None
          THEN /\ raised' = out.raised
               /\ pc' = "done"
          ELSE /\ raised' = raised
               /\ pc' = "fetch_repo"
    /\ UNCHANGED <<entry, args, calls, slept, section, pagVars, pending, enriched,
                   userVars, result, requests, delivered>>

\* extract_repository_info is called with some repo_url
InitExtractUrl ==
    /\ entry = Extract
    /\ args \in ExtractUrlArgs
    /\ pc = "resolve"
    /\ InitCommon

NextExtractUrl ==
    \/ ResolveIdentifier
    \/ GetRepositoryInfo
    \/ ExtractStargazers
    \/ ExtractForkers
    \/ PaginateUsers

\* one extract_repository_info call, from the resolution of its identifier
SpecExtractUrl == InitExtractUrl /\ [][NextExtractUrl]_vars


(***************************************************************************)
(* The stargazer section against an upstream that never runs dry: every    *)
(* request succeeds and every list page holds one item.  The exploration   *)
(* follows it for as many items as the upstream of the other               *)
(* specifications serves.                                                   *)
(***************************************************************************)
Upstreams == {"endless", "finite"}

\* under the endless upstream the request just made succeeded and, if it
\* asked for a list page, was answered with a page of one item
AsUpstream ==
    (args.upstream = "endless" /\ requests' # requests) =>
        LET r == requests'[Len(requests')] IN
        /\ Succeeds(r.status)
        /\ (r.ep \in {"stargazers", "forks"} => r.items = 1)

\* the arguments of these calls: the stargazer section alone, any cap
EndlessArgs ==
    [upstream                    : Upstreams,
     include_stargazers          : {TRUE},
     include_forkers             : {FALSE},
     max_stargazers              : Caps,
     max_forkers                 : {None},
     detailed_user_info          : BOOLEAN,
     aggressive_email_extraction : {FALSE}]

InitEndless ==
    /\ entry = Extract
    /\ args \in EndlessArgs
    /\ pc = "fetch_repo"
    /\ InitCommon

NextEndless ==
    \/ GetRepositoryInfo /\ AsUpstream
    \/ ExtractStargazers
    \/ PaginateUsers /\ AsUpstream
    \/ GetUserInfo /\ AsUpstream
    \/ ExtractForkers

\* one extraction of the stargazers, whose steps are all taken in the end
SpecEndless == InitEndless /\ [][NextEndless]_vars /\ WF_vars(NextEndless)


(***************************************************************************)
(* Properties.                                                              *)
(***************************************************************************)
Sections == {"stargazers", "forkers"}

Failed(r) == ~Succeeds(r.status)

IsPageOf(sec, r) == r.ep \in {"stargazers", "forks"} /\ r.sec = sec
IsProfileOf(sec, r) == r.ep = "user" /\ r.sec = sec

\* some page request of the section's walk failed
WalkFailed(sec) == \E i \in DOMAIN requests : IsPageOf(sec, requests[i]) /\ Failed(requests[i])

\* some request issued while enriching the section's records failed
EnrichmentFailed(sec) ==
    \E i \in DOMAIN requests :
        /\ requests[i].sec = sec
        /\ ~IsPageOf(sec, requests[i])
        /\ Failed(requests[i])

RepoFetched == requests # <<>> /\ Succeeds(requests[1].status)

Included(sec) ==
    IF sec = "stargazers" THEN args.include_stargazers ELSE args.include_forkers

CapOf(sec) == IF sec = "stargazers" THEN args.max_stargazers ELSE args.max_forkers

LoginsOf(list) == [i \in DOMAIN list |-> list[i].login]

Returned == pc = "done" /\ raised = None /\ result # None

\* C1: when the repository request fails, extract_repository_info raises the
\* error of that request, returns no report, and issues no further request.
C1_RepoFailureIsFatal ==
    (entry = Extract /\ requests # <<>> /\ Failed(requests[1])) =>
        /\ requests[1].ep = "repo"
        /\ Len(requests) = 1
        /\ pc = "done"
        /\ result = None
        /\ raised # None
        /\ raised[1].type = (IF requests[1].status = 429
                             THEN "RateLimitError" ELSE "GitHubAPIError")
        /\ (requests[1].status = 404 => raised[1].msg = "Repository not found")

C1_Witness ==
    /\ entry = Extract
    /\ pc = "done"
    /\ Len(requests) = 1
    /\ requests[1].status = 404
    /\ raised = Some([type |-> "GitHubAPIError", msg |-> "Repository not found"])
    /\ args.include_stargazers
    /\ args.include_forkers

\* C2 as claimed: once the repository is fetched, any failed request of the
\* stargazer section (of its walk or of its enrichment) leaves
\* result.stargazers empty, nothing is raised, and the forker section runs.
C2_AnyFailureEmptiesSection ==
    (entry = Extract /\ pc = "done" /\ RepoFetched
        /\ (WalkFailed("stargazers") \/ EnrichmentFailed("stargazers"))) =>
        /\ Returned
        /\ result[1].stargazers = <<>>
        /\ (args.include_forkers =>
              \E i \in DOMAIN requests : IsPageOf("forkers", requests[i]))

\* C2 amended: once the repository is fetched the call returns a report and
\* raises nothing; a failed page request of the stargazer walk leaves
\* result.stargazers empty; a failed enrichment request alone does not (every
\* kept record is still reported); the forker section runs when requested.
C2_SectionFailureIsAbsorbed ==
    (entry = Extract /\ pc = "done" /\ RepoFetched) =>
        /\ Returned
        /\ (WalkFailed("stargazers") => result[1].stargazers = <<>>)
        /\ (EnrichmentFailed("stargazers") /\ ~WalkFailed("stargazers") =>
              result[1].stargazers # <<>>)
        /\ (args.include_forkers =>
              \E i \in DOMAIN requests : IsPageOf("forkers", requests[i]))

C2_Witness ==
    /\ entry = Extract
    /\ Returned
    /\ delivered.stargazers # <<>>
    /\ WalkFailed("stargazers")
    /\ result[1].stargazers = <<>>
    /\ args.include_forkers
    /\ result[1].forkers # <<>>

\* C3: for every cap the caller supplies (any integer, 0 included) the section
\* of the returned report holds at most that many records.
C3_CountWithinCap ==
    (entry = Extract /\ Returned) =>
        \A sec \in Sections :
            CapOf(sec) # None => Len(result[1][sec]) <= CapOf(sec)[1]

\* C4: in every report, total_stargazers and total_forkers are the
\* stargazers_count and forks_count of the repository response.
C4_TotalsAreRepositoryCounts ==
    (entry = Extract /\ result # None) =>
        /\ result[1].total_stargazers = result[1].repository.stargazers_count
        /\ result[1].total_forkers = result[1].repository.forks_count

C4_Witness ==
    /\ entry = Extract
    /\ Returned
    /\ result[1].repository.stargazers_count = 3
    /\ result[1].total_stargazers = 3
    /\ Len(result[1].stargazers) = 1
    /\ args.max_stargazers = Some(1)
    /\ WalkFailed("forkers")
    /\ result[1].total_forkers = 1

\* the number of records a section keeps of the `n` its walk returned
KeptOf(sec, n) ==
    IF CapOf(sec) = None \/ CapOf(sec) = Some(0) THEN n
    ELSE IF CapOf(sec)[1] < n THEN CapOf(sec)[1] ELSE n

\* C5: with detailed info requested, a section whose walk returned keeps N
\* records and reports exactly N, position i holding the detailed record of
\* the i-th kept user when its profile request succeeded and the unchanged
\* minimal record when it failed; every kept record gets its profile request.
C5_EnrichmentSubstitutes ==
    (entry = Extract /\ Returned /\ args.detailed_user_info) =>
        \A sec \in Sections :
            (Included(sec) /\ ~WalkFailed(sec)) =>
                LET fetches == SelectSeq(requests, LAMBDA r : IsProfileOf(sec, r))
                    got == result[1][sec]
                IN /\ Len(got) = KeptOf(sec, Len(delivered[sec]))
                   /\ Len(fetches) = Len(got)
                   /\ \A i \in DOMAIN got :
                        /\ fetches[i].login = delivered[sec][i]
                        /\ got[i].login = delivered[sec][i]
                        /\ IF Failed(fetches[i])
                           THEN got[i] = [login |-> delivered[sec][i],
                                          email |-> None, profile |-> FALSE]
                           ELSE got[i].profile

C5_Witness ==
    /\ entry = Extract
    /\ Returned
    /\ args.detailed_user_info
    /\ Len(result[1].stargazers) = 2
    /\ ~result[1].stargazers[1].profile
    /\ result[1].stargazers[2].profile
    /\ result[1].stargazers[1].login # result[1].stargazers[2].login


IsWalk == entry \in {"get_stargazers", "get_forks"}

\* C6: with no page ceiling, the walk asks for pages 1, 2, 3, ... in order,
\* asks for nothing after a page that came back empty, and on k non-empty
\* pages followed by an empty one returns after exactly k+1 requests with the
\* k pages concatenated in page order, then in-page order.
C6_WalkStopsAtFirstEmptyPage ==
    (IsWalk /\ args.max_pages = None) =>
        /\ \A i \in DOMAIN requests :
             /\ requests[i].page = i
             /\ (i < Len(requests) =>
                   Succeeds(requests[i].status) /\ requests[i].items > 0)
        /\ (pc = "paginate" => LoginsOf(users) = delivered[section])
        /\ (pc = "done" /\ raised = None) =>
             /\ requests # <<>>
             /\ Succeeds(requests[Len(requests)].status)
             /\ requests[Len(requests)].items = 0
             /\ result # None
             /\ result[1] = [i \in DOMAIN delivered[section] |->
                               [login |-> delivered[section][i],
                                email |-> None, profile |-> FALSE]]

C6_Witness ==
    /\ entry = "get_stargazers"
    /\ args.max_pages = None
    /\ pc = "done"
    /\ raised = None
    /\ Len(requests) = 3
    /\ requests[1].items = 1
    /\ requests[2].items = 2
    /\ LoginsOf(result[1]) = <<"bob", "alice", "bob">>

\* C7: when max_pages is set to N, the walk issues at most N requests, for
\* pages 1..N only.
C7_AtMostCeilingRequests ==
    (IsWalk /\ args.max_pages # None) =>
        /\ Len(requests) <= args.max_pages[1]
        /\ \A i \in DOMAIN requests : requests[i].page \in 1..args.max_pages[1]

\* C8: when the walk returned at least max_count records (max_count >= 1),
\* the section holds exactly max_count records, the first max_count delivered,
\* in their order.
C8_TruncationKeepsFirst ==
    (entry = Extract /\ Returned) =>
        \A sec \in Sections :
            (/\ Included(sec)
             /\ ~WalkFailed(sec)
             /\ CapOf(sec) # None
             /\ CapOf(sec)[1] >= 1
             /\ Len(delivered[sec]) >= CapOf(sec)[1]) =>
                /\ Len(result[1][sec]) = CapOf(sec)[1]
                /\ \A i \in 1..CapOf(sec)[1] :
                     result[1][sec][i].login = delivered[sec][i]

C8_Witness ==
    /\ entry = Extract
    /\ Returned
    /\ args.max_stargazers = Some(1)
    /\ delivered.stargazers = <<"alice", "bob">>
    /\ LoginsOf(result[1].stargazers) = <<"alice">>

\* C9: the records of each section are in API delivery order: the logins of a
\* section, and of the lists being truncated and enriched on the way, are a
\* prefix of the logins delivered for it, also when enrichments fail.
C9_DeliveryOrderKept ==
    entry = Extract =>
        /\ (pc = "paginate" => LoginsOf(users) = delivered[section])
        /\ LoginsOf(pending) = SubSeq(delivered[IF section = "" THEN "stargazers"
                                                ELSE section], 1, Len(pending))
        /\ \A i \in DOMAIN enriched : enriched[i].login = pending[i].login
        /\ result # None =>
             \A sec \in Sections :
                LoginsOf(result[1][sec]) =
                    SubSeq(delivered[sec], 1, Len(result[1][sec]))

C9_Witness ==
    /\ entry = Extract
    /\ Returned
    /\ args.detailed_user_info
    /\ EnrichmentFailed("forkers")
    /\ delivered.stargazers = <<>>
    /\ delivered.forkers = <<"alice", "bob">>
    /\ LoginsOf(result[1].forkers) = <<"alice", "bob">>
    /\ result[1].forkers[2].profile

\* C10: the strategies are tried in the order events, public events, owned
\* repositories, each at most once, and no request follows the one in which
\* a strategy found an accepted e-mail, which is the e-mail returned.
C10_StrategiesInOrderUntilFound ==
    entry = GetUser =>
        /\ \A i \in DOMAIN requests :
             /\ (i = 1) = (requests[i].ep = "user")
             /\ (requests[i].ep = "events" => i = 2)
             /\ (requests[i].ep = "events_public" =>
                   i = 3 /\ requests[2].ep = "events")
             /\ (requests[i].ep = "user_repos" =>
                   i = 4 /\ requests[3].ep = "events_public")
             /\ (requests[i].ep = "commits" =>
                   i > 4 /\ requests[4].ep = "user_repos")
             /\ (i > 1 /\ requests[i].email # None =>
                   /\ i = Len(requests)
                   /\ pc = "done"
                   /\ result # None
                   /\ result[1].email = requests[i].email)

C10_Witness ==
    /\ entry = GetUser
    /\ pc = "done"
    /\ Len(requests) = 3
    /\ requests[2].ep = "events"
    /\ Succeeds(requests[2].status)
    /\ requests[2].email = None
    /\ requests[3].ep = "events_public"
    /\ requests[3].email = Some(GoodEmail)
    /\ result = Some([login |-> args.username, email |-> Some(GoodEmail),
                      profile |-> TRUE])

\* the request after the i-th, or the position the call is at when the i-th
\* is the last one issued
FollowedBy(i, ep, at) ==
    IF i < Len(requests) THEN requests[i + 1].ep = ep ELSE pc = at

\* C11: a failed request of one strategy does not abort the cascade: after a
\* failed events request the public events are requested, after a failed
\* public-events request the repository list, after a failed commit-list
\* request the next owned repository (or the call returns); nothing is raised
\* and, once the profile was fetched, get_user_info returns a user record.
C11_StrategyFailureIsSkipped ==
    entry = GetUser =>
        /\ \A i \in DOMAIN requests :
             (i > 1 /\ Failed(requests[i])) =>
                /\ raised = None
                /\ (requests[i].ep = "events" =>
                      FollowedBy(i, "events_public", "email_events"))
                /\ (requests[i].ep = "events_public" =>
                      FollowedBy(i, "user_repos", "email_repos"))
                /\ (requests[i].ep = "user_repos" =>
                      i = Len(requests) /\ pc = "done")
                /\ (requests[i].ep = "commits" =>
                      \/ FollowedBy(i, "commits", "email_repo_commits")
                      \/ i = Len(requests) /\ pc = "done")
        /\ (pc = "done" /\ Succeeds(requests[1].status)) =>
             /\ raised = None
             /\ result # None
             /\ result[1].login = args.username
             /\ result[1].profile

C11_Witness ==
    /\ entry = GetUser
    /\ pc = "done"
    /\ Len(requests) = 6
    /\ requests[2].status = 429
    /\ requests[3].status = 404
    /\ Succeeds(requests[4].status)
    /\ requests[5].ep = "commits"
    /\ Failed(requests[5])
    /\ requests[6].ep = "commits"
    /\ requests[6].email = Some(GoodEmail)
    /\ result = Some([login |-> args.username, email |-> Some(GoodEmail),
                      profile |-> TRUE])

\* C12: the discovery runs only when the profile carries no e-mail and
\* aggressive_email_extraction is true; otherwise get_user_info issues the
\* profile request alone and returns the profile's e-mail, absent or not.
C12_DiscoveryOnlyWhenNeeded ==
    (entry = GetUser /\ requests # <<>> /\ Succeeds(requests[1].status)) =>
        /\ requests[1].ep = "user"
        /\ (Len(requests) > 1 \/ pc # "done") =>
             ~TruthyText(requests[1].email) /\ args.aggressive_email_extraction
        /\ (TruthyText(requests[1].email) \/ ~args.aggressive_email_extraction) =>
             /\ Len(requests) = 1
             /\ pc = "done"
             /\ raised = None
             /\ result = Some([login |-> args.username,
                               email |-> requests[1].email, profile |-> TRUE])

C12_Witness ==
    /\ entry = GetUser
    /\ ~args.aggressive_email_extraction
    /\ pc = "done"
    /\ Len(requests) = 1
    /\ Succeeds(requests[1].status)
    /\ requests[1].email = None
    /\ result = Some([login |-> args.username, email |-> None, profile |-> TRUE])

\* C13: an e-mail returned by any of the three strategies is non-empty,
\* contains "@", does not end with "@users.noreply.github.com" and does not
\* start with "noreply"; "foo@users.noreply.github.com" and
\* "noreply@company.com" are never returned, and the filter accepts
\* "jane@example.com".
C13_ReturnedEmailPassesFilter ==
    /\ AcceptEmail(JaneEmail)
    /\ (entry \in Strategies /\ pc = "done") =>
         /\ raised = None
         /\ result # None
         /\ result[1] # None =>
              LET e == result[1][1] IN
              /\ Len(e) > 0
              /\ \E i \in 1..Len(e) : e[i] = "@"
              /\ ~(Len(e) >= 25 /\ SubSeq(e, Len(e) - 24, Len(e)) = NoreplySuffix)
              /\ ~(Len(e) >= 7 /\ SubSeq(e, 1, 7) = <<"n","o","r","e","p","l","y">>)
              /\ e # FooNoreplyEmail
              /\ e # NoreplyCompanyEmail
              /\ requests[Len(requests)].email = result[1]

C13_Witness ==
    /\ entry = "_extract_email_from_user_repos"
    /\ pc = "done"
    /\ Len(requests) = 3
    /\ requests[2].items = 2
    /\ requests[2].email = None
    /\ requests[3].items = 2
    /\ result = Some(Some(JaneEmail))

\* all three strategies were tried and none found an accepted e-mail
Exhausted ==
    /\ Len(requests) >= 4
    /\ requests[2].ep = "events"
    /\ requests[3].ep = "events_public"
    /\ requests[4].ep = "user_repos"
    /\ \A i \in 2..Len(requests) : requests[i].email = None
    /\ pc # "email_repo_commits"

\* C14: when the three strategies are exhausted without an accepted e-mail,
\* each having found nothing or failed, get_user_info returns a user record
\* with no e-mail and raises nothing.
C14_ExhaustedGivesNoEmail ==
    (entry = GetUser /\ Exhausted) =>
        /\ pc = "done"
        /\ raised = None
        /\ result = Some([login |-> args.username, email |-> None,
                          profile |-> TRUE])

C14_Witness ==
    /\ entry = GetUser
    /\ Exhausted
    /\ pc = "done"
    /\ Failed(requests[2])
    /\ Succeeds(requests[3].status)
    /\ requests[3].items > 0
    /\ Failed(requests[4])
    /\ result = Some([login |-> args.username, email |-> None, profile |-> TRUE])

\* the last attempt of a finished _make_request call
LastAttempt == requests[Len(requests)]

\* C15: a request whose response is HTTP 429 fails with RateLimitError, and
\* the wait it computes is max(reset - now, 60): never below 60, and exactly
\* 60 when the reset is 30 seconds ahead, in the past, or missing.
C15_RateLimitedWithFlooredWait ==
    (entry = MakeRequest /\ pc = "done" /\ LastAttempt.status = 429) =>
        /\ raised # None
        /\ raised[1].type = "RateLimitError"
        /\ raised[1].wait # None
        /\ raised[1].wait[1] >= 60
        /\ (LastAttempt.reset = None => raised[1].wait[1] = 60)
        /\ (LastAttempt.reset # None =>
              /\ (LastAttempt.reset[1] - current_time <= 60 => raised[1].wait[1] = 60)
              /\ (LastAttempt.reset[1] - current_time > 60 =>
                    raised[1].wait[1] = LastAttempt.reset[1] - current_time))

\* C16: a rate-limited (HTTP 429) request is never retried automatically: no
\* attempt follows one answered 429, and the call ends in RateLimitError.
C16_RateLimitedNeverRetried ==
    entry = MakeRequest =>
        \A i \in DOMAIN requests :
            requests[i].status = 429 =>
                /\ i = Len(requests)
                /\ pc = "done"
                /\ raised # None
                /\ raised[1].type = "RateLimitError"

\* C18: a finished request is classified by what it met last: 404 gives the
\* not-found error naming the endpoint, 403 the forbidden error naming the
\* endpoint, 429 the rate-limit error, any other non-2xx status the HTTP
\* error carrying the status code, a connection-level failure the
\* request-failed error; a 2xx response never yields an error.
C18_FailureClassified ==
    (entry = MakeRequest /\ pc = "done") =>
        LET st == LastAttempt.status IN
        IF Succeeds(st) THEN raised = None /\ result # None
        ELSE /\ result = None
             /\ raised # None
             /\ raised[1].msg =
                  (IF st = 404 THEN "Repository not found"
                   ELSE IF st = 403 THEN "Access forbidden"
                   ELSE IF st = 429 THEN "Rate limit exceeded"
                   ELSE IF st = ConnectionFailure THEN "Request failed"
                   ELSE "HTTP error")
             /\ raised[1].type =
                  (IF st = 429 THEN "RateLimitError" ELSE "GitHubAPIError")
             /\ (st \in {403, 404} => raised[1].endpoint = Some(args.endpoint))
             /\ (st \notin {ConnectionFailure, 403, 404, 429} =>
                   raised[1].code = Some(st))

\* C17: extract_repository_info raises RateLimitError when a request of the
\* extraction is answered 429, whichever request it is: the repository
\* request, a page request, or a request of a per-user fetch.
C17_RateLimitIsRaised ==
    (entry = Extract /\ pc = "done"
        /\ \E i \in DOMAIN requests : requests[i].status = 429) =>
        /\ raised # None
        /\ raised[1].type = "RateLimitError"
        /\ result = None

Resolved == entry = ParseRepo /\ pc = "done"

\* the text of `id` after its first n characters
After(id, n) == SubSeq(id, n + 1, Len(id))

\* C19: for owner and repo names forming the bare identifier owner/repo,
\* resolving owner/repo and resolving http(s)://github.com/owner/repo,
\* alone or followed by further path segments, both give (owner, repo).
C19_BareAndUrlAgree ==
    Resolved =>
        \A o \in Names, r \in Names, l \in LeftPads :
            /\ \A rp \in RightPads :
                 args.repo_identifier = l \o o \o <<"/">> \o r \o rp =>
                    raised = None /\ result = Some(<<o, r>>)
            /\ \A sch \in UrlSchemes :
                 LET head == l \o sch \o GitHubHost \o <<"/">> \o o \o <<"/">> \o r
                     rest == After(args.repo_identifier, Len(head))
                 IN (/\ StartsWith(args.repo_identifier, head)
                     /\ (rest = <<>> \/ rest[1] = "/" \/ rest \in RightPads)) =>
                        raised = None /\ result = Some(<<o, r>>)

C19_Witness ==
    /\ Resolved
    /\ args.repo_identifier =
         HttpPrefix \o GitHubHost
            \o JoinPath(<<LongName, ShortName, ShortName, LongName>>) \o <<"/">>
    /\ result = Some(<<LongName, ShortName>>)

NumSlashes(id) == Cardinality({i \in 1..Len(id) : id[i] = "/"})

\* C20: a URL whose host is not exactly github.com is rejected with the
\* unsupported-host error; a bare string with no "/" (the empty string
\* included) or with more than one "/" is rejected with the
\* invalid-identifier error.
C20_Rejections ==
    Resolved =>
        /\ \A l \in LeftPads, sch \in UrlSchemes, host \in UrlHosts \ {GitHubHost} :
             LET head == l \o sch \o host
                 rest == After(args.repo_identifier, Len(head))
             IN (/\ StartsWith(args.repo_identifier, head)
                 /\ (rest = <<>> \/ rest[1] \in {"/", "?", "#"} \/ rest \in RightPads)) =>
                    /\ result = None
                    /\ raised = Some(ValueError("Only GitHub repositories are supported"))
        /\ (~Contains(args.repo_identifier, ":")
              /\ NumSlashes(args.repo_identifier) # 1) =>
                /\ result = None
                /\ raised = Some(ValueError(
                      IF NumSlashes(args.repo_identifier) = 0
                      THEN "Invalid repository identifier"
                      ELSE "Invalid repository format"))

C20_Witness ==
    /\ Resolved
    /\ args.repo_identifier = <<" ", "a", "/", "b", "/">>
    /\ raised = Some(ValueError("Invalid repository format"))

\* C21: resolve never returns an empty owner or an empty repo: a bare
\* identifier with an empty side ("owner/", "/repo", "/") and a github.com
\* URL whose path has fewer than two non-empty segments (an empty segment
\* between slashes included) fail with the invalid-identifier error.
C21_NoEmptyOwnerOrRepo ==
    Resolved =>
        /\ result # None => result[1][1] # <<>> /\ result[1][2] # <<>>
        /\ \A l \in LeftPads, rp \in RightPads, n \in Names :
             args.repo_identifier \in
                 {l \o n \o <<"/">> \o rp, l \o <<"/">> \o n \o rp, l \o <<"/">> \o rp,
                  l \o HttpsPrefix \o GitHubHost \o <<"/">> \o n \o <<"/", "/">> \o n \o rp} =>
                    result = None /\ raised # None /\ raised[1].type = "ValueError"

\* C22: a request carries the Authorization header "token <value>" if and
\* only if a token is configured on the client: a client constructed with
\* token T sends "token T" on every request, and a client with no token
\* configured sends no Authorization header.
C22_AuthorizationIffToken ==
    entry = MakeRequest =>
        \A i \in DOMAIN requests :
            requests[i].headers.Authorization =
                (IF TruthyToken(InstanceToken(args.token, args.env_token))
                 THEN Some(<<"token", InstanceToken(args.token, args.env_token)[1]>>)
                 ELSE None)

\* C23: every report of extract_repository_info carries the repository record
\* built from the repository response, which no later step changes or
\* removes; a finished call has either such a report or an error, never
\* both and never neither.
C23_ReportHasRepository ==
    /\ [](entry = Extract =>
            /\ (result # None =>
                  /\ RepoFetched
                  /\ result[1].repository # None
                  /\ result[1].repository \in RepoResponses)
            /\ (pc = "done" => (result = None) # (raised = None))
            /\ (pc # "done" => raised = None))
    /\ [][(entry = Extract /\ result # None) =>
            /\ result' # None
            /\ result'[1].repository = result[1].repository]_vars

C23_Witness ==
    /\ entry = Extract
    /\ Returned
    /\ WalkFailed("stargazers")
    /\ EnrichmentFailed("forkers")
    /\ result[1].repository = [stargazers_count |-> 3, forks_count |-> 1]

\* C24: when include_stargazers (resp. include_forkers) is false, no request
\* to the stargazers (resp. forks) endpoint and no per-user request of that
\* section is issued, and that section of the report is empty.
C24_ExcludedSectionUntouched ==
    entry = Extract =>
        \A sec \in Sections :
            ~Included(sec) =>
                /\ \A i \in DOMAIN requests :
                     /\ requests[i].sec # sec
                     /\ requests[i].ep # (IF sec = "stargazers" THEN "stargazers"
                                          ELSE "forks")
                /\ delivered[sec] = <<>>
                /\ section # sec
                /\ (result # None => result[1][sec] = <<>>)

C24_Witness ==
    /\ entry = Extract
    /\ Returned
    /\ ~args.include_stargazers
    /\ args.include_forkers
    /\ args.detailed_user_info
    /\ Len(result[1].forkers) = 2
    /\ result[1].stargazers = <<>>
    /\ Len(requests) > 3

\* C25: in every returned report the number of stargazer (resp. forker)
\* records is at most total_stargazers (resp. total_forkers) of that report,
\* also when the upstream lists change between the repository request and
\* the walk.
C25_CountWithinTotal ==
    (entry = Extract /\ Returned) =>
        /\ Len(result[1].stargazers) <= result[1].total_stargazers
        /\ Len(result[1].forkers) <= result[1].total_forkers

\* C26: when a page request of a walk fails, the walk ends there with the
\* error of that request and returns nothing: the records of the pages
\* already fetched are not returned.
C26_FailedWalkReturnsNothing ==
    IsWalk =>
        \A i \in DOMAIN requests :
            Failed(requests[i]) =>
                /\ i = Len(requests)
                /\ pc = "done"
                /\ result = None
                /\ raised = Some(RequestError(requests[i].status))

C26_Witness ==
    /\ entry = "get_forks"
    /\ pc = "done"
    /\ Len(requests) = 3
    /\ delivered.forkers = <<"alice", "bob", "alice">>
    /\ requests[3].status = 404
    /\ result = None
    /\ raised # None

\* the positions of a repository list whose owner login is `u`
OwnedPositions(owners, u) == {i \in DOMAIN owners : owners[i] = u}

\* the first k elements of a set of positions
FirstOf(S, k) == {i \in S : Cardinality({j \in S : j < i}) < k}

\* the repositories whose commits a strategy call has requested so far
Inspected == {requests[i].repo : i \in {j \in DOMAIN requests : requests[j].ep = "commits"}}

\* the owned-repositories strategy has run to its end without an e-mail
ScannedAllRepos ==
    /\ entry = "_extract_email_from_user_repos"
    /\ pc = "done"
    /\ result = Some(None)
    /\ requests # <<>>
    /\ Succeeds(requests[1].status)

\* C27 (as stated): the owned-repositories strategy inspects the commits of
\* the first 3 repositories among those owned by the subject, wherever they
\* stand in the response: owned repositories behind non-owned ones are still
\* inspected.
C27_FirstThreeOwned ==
    ScannedAllRepos =>
        Inspected = FirstOf(OwnedPositions(requests[1].owners, requests[1].login), 3)

\* C27 (amended): the strategy only looks at the first 3 repositories of the
\* response and inspects, in order and once each, those of them that the
\* subject owns; a repository behind the third position is never inspected,
\* owned or not, and a call that ends without an e-mail has inspected every
\* owned one of the first 3.
C27_OwnedAmongFirstThree ==
    (entry = "_extract_email_from_user_repos" /\ requests # <<>>) =>
        /\ requests[1].ep = "user_repos"
        /\ \A i \in 2..Len(requests) :
             /\ requests[i].ep = "commits"
             /\ Succeeds(requests[1].status)
             /\ requests[i].repo \in
                  OwnedPositions(requests[1].owners, requests[1].login) \cap 1..3
             /\ \A j \in 2..(i - 1) : requests[j].repo < requests[i].repo
        /\ ScannedAllRepos =>
             Inspected = OwnedPositions(requests[1].owners, requests[1].login) \cap 1..3

\* a response with a non-owned repository before two owned ones and an owned
\* one in fourth place: the second and third are inspected, the fourth is not
C27_Witness ==
    /\ ScannedAllRepos
    /\ requests[1].owners = <<Octocat, requests[1].login, requests[1].login,
                              requests[1].login>>
    /\ Inspected = {2, 3}
    /\ Len(requests) = 3

\* a request made for one user of the section: the profile request or a
\* request of an e-mail discovery strategy
IsUserRequestOf(sec, r) == r.sec = sec /\ ~IsPageOf(sec, r)

\* the position of an extraction in the sequence repository fetch, stargazer
\* section (list walk, then per-user requests), forker section (the same),
\* assembled
StepRank ==
    IF pc = "fetch_repo" THEN 1
    ELSE IF pc = "stargazers" THEN 2
    ELSE IF pc = "forkers" THEN 5
    ELSE IF pc = "done" THEN 8
    ELSE (IF section = "stargazers" THEN 3 ELSE 6)
           + (IF pc = "paginate" THEN 0 ELSE 1)

\* C28: the requests of one extraction follow the order repository fetch,
\* stargazer section, forker section, with no step revisited: the repository
\* request is the first request and the only one of its kind, within a section
\* every list-page request precedes every per-user request, and every
\* stargazer-section request precedes every forker-section request.
C28_LinearOrder ==
    /\ [](entry = Extract =>
            /\ requests # <<>> => requests[1].ep = "repo"
            /\ \A i \in 2..Len(requests) :
                 requests[i].ep # "repo" /\ requests[i].sec \in Sections
            /\ \A i, j \in DOMAIN requests :
                 i < j =>
                   /\ requests[i].sec = "forkers" => requests[j].sec = "forkers"
                   /\ \A sec \in Sections :
                        IsUserRequestOf(sec, requests[i]) => ~IsPageOf(sec, requests[j])
            /\ (pc # "fetch_repo" => requests # <<>>))
    /\ [][entry = Extract => StepRank' >= StepRank]_vars

\* an extraction that walked two stargazer pages, enriched a stargazer, walked
\* the forks and enriched a forker
C28_Witness ==
    /\ entry = Extract
    /\ pc = "done"
    /\ \E i, j, k, l, m \in DOMAIN requests :
         /\ 1 < i /\ i < j /\ j < k /\ k < l /\ l < m
         /\ IsPageOf("stargazers", requests[i])
         /\ IsPageOf("stargazers", requests[j])
         /\ IsProfileOf("stargazers", requests[k])
         /\ IsPageOf("forkers", requests[l])
         /\ IsProfileOf("forkers", requests[m])

\* C29: the pacing delay is taken exactly once for a request that succeeds,
\* after the 2xx response is received and before the body is returned, and
\* never for a request that fails (rate-limit answer, 403, 404, another HTTP
\* error, connection failure).
C29_PacedOncePerSuccess ==
    entry = MakeRequest =>
        /\ slept \in {0, 1}
        /\ slept = 1 => requests # <<>> /\ Succeeds(LastAttempt.status)
        /\ result # None => slept = 1
        /\ raised # None => slept = 0
        /\ pc = "done" => (slept = 1 <=> Succeeds(LastAttempt.status))
        /\ pc = "request" => slept = 0

\* a request answered 503, then not at all, then 200: one delay, then the body
C29_Witness ==
    /\ entry = MakeRequest
    /\ pc = "done"
    /\ Len(requests) = 3
    /\ requests[1].status = 503
    /\ requests[2].status = ConnectionFailure
    /\ requests[3].status = 200
    /\ slept = 1
    /\ result = Some("json")

\* the attempt is followed by another attempt of the same call
Reissued(i) == i < Len(requests)

\* C30 (as stated): an attempt is re-issued only when it was answered with a
\* status in {429, 500, 502, 503, 504}, at most MAX_RETRIES times, so a call
\* makes at most MAX_RETRIES + 1 attempts; 403 and 404 are never re-issued.
C30_ReissuedOnlyForForcelist ==
    entry = MakeRequest =>
        /\ Len(requests) <= MAX_RETRIES + 1
        /\ \A i \in DOMAIN requests :
             Reissued(i) => requests[i].status \in status_forcelist

\* C30 (amended): an attempt is re-issued only after a connection failure, a
\* response whose status is in {429, 500, 502, 503, 504}, or a 413 response
\* carrying Retry-After, and at most MAX_RETRIES times: a call makes at most
\* MAX_RETRIES + 1 attempts and ends after the last one; a 403 or 404 response
\* is never re-issued; every call ends.
C30_BoundedRetry ==
    /\ [](entry = MakeRequest =>
            /\ Len(requests) <= MAX_RETRIES + 1
            /\ (Len(requests) = MAX_RETRIES + 1 => pc # "request")
            /\ \A i \in DOMAIN requests :
                 /\ Reissued(i) =>
                      \/ requests[i].status = ConnectionFailure
                      \/ requests[i].status \in status_forcelist
                      \/ (requests[i].status = 413 /\ requests[i].retry_after)
                 /\ requests[i].status \in {403, 404} =>
                      ~Reissued(i) /\ pc = "done" /\ raised # None)
    /\ <>(pc = "done")

\* four attempts, re-issued after a 503, after a connection failure and after
\* a 413 with Retry-After, the fourth answered 503: the call has failed
C30_Witness ==
    /\ entry = MakeRequest
    /\ pc = "done"
    /\ Len(requests) = MAX_RETRIES + 1
    /\ requests[1].status = 503
    /\ requests[2].status = ConnectionFailure
    /\ requests[3].status = 413 /\ requests[3].retry_after
    /\ requests[4].status = 503
    /\ raised # None /\ raised[1].msg = "Request failed"

\* C31: for every cap of at least 1 the page ceiling is the smallest number of
\* 30-record pages that holds the cap (max_pages * 30 >= max_count >
\* (max_pages - 1) * 30); with no cap there is no ceiling.
C31_CeilingIsSmallestCover ==
    (entry \in {"_extract_stargazers", "_extract_forkers"} /\ pc = "done") =>
        /\ (args.max_count = None => max_pages = None)
        /\ (args.max_count # None /\ args.max_count[1] >= 1 =>
              /\ max_pages # None
              /\ max_pages[1] * PerPage >= args.max_count[1]
              /\ args.max_count[1] > (max_pages[1] - 1) * PerPage)

\* a cap of 61 records needs three pages
C31_Witness ==
    /\ entry = "_extract_forkers"
    /\ pc = "done"
    /\ args.max_count = Some(61)
    /\ max_pages = Some(3)

\* the page numbers a call asked for, in order
PagesAsked(reqs) == [i \in DOMAIN reqs |-> reqs[i].page]

\* C32: run against an upstream with the same page sizes and outcomes and with
\* the same max_pages, get_forks issues the same sequence of page requests as
\* _paginate_users and returns the same number of records (or fails where it
\* failed), taking each login from the owner of the fork.
C32_WalksShareStopConditions ==
    (entry = "get_forks" /\ calls # <<>>) =>
        LET first == calls[1] IN
        /\ Len(requests) <= Len(first.requests)
        /\ \A i \in DOMAIN requests :
             /\ requests[i].page = first.requests[i].page
             /\ requests[i].ep = "forks" /\ first.requests[i].ep = "stargazers"
        /\ pc = "done" =>
             /\ PagesAsked(requests) = PagesAsked(first.requests)
             /\ raised = first.raised
             /\ (result = None) = (first.result = None)
             /\ result # None =>
                  /\ Len(result[1]) = Len(first.result[1])
                  /\ LoginsOf(result[1]) = delivered.forkers

\* under a ceiling of 2 both walks asked for pages 1 and 2 and returned three
\* records each, of different users
C32_Witness ==
    /\ entry = "get_forks"
    /\ calls # <<>>
    /\ pc = "done"
    /\ args.max_pages = Some(2)
    /\ PagesAsked(requests) = <<1, 2>>
    /\ PagesAsked(calls[1].requests) = <<1, 2>>
    /\ result # None /\ Len(result[1]) = 3
    /\ calls[1].result # None /\ Len(calls[1].result[1]) = 3
    /\ LoginsOf(result[1]) # LoginsOf(calls[1].result[1])

\* C33: login is a unique key of a section: no two records of the list a walk
\* returns have the same login, also when the upstream list shifts between
\* two page requests or when one user owns several forks.
C33_LoginIsUniqueKey ==
    (IsWalk /\ Returned) =>
        \A i, j \in DOMAIN result[1] :
            i # j => result[1][i].login # result[1][j].login

C35_RateLimitPassThrough ==
    /\ [](entry = GetRateLimit =>
            /\ Len(requests) <= 1
            /\ \A i \in DOMAIN requests : requests[i].ep = "rate_limit"
            /\ (pc = "done" <=> Len(requests) = 1)
            /\ (pc = "done" =>
                  IF Succeeds(requests[1].status)
                  THEN result = requests[1].data /\ raised = None
                  ELSE result = None /\ raised = Some(RequestError(requests[1].status)))
            /\ (pc # "done" => result = None /\ raised = None))
    /\ [][entry = GetRateLimit =>
            UNCHANGED <<entry, args, calls, slept, section, pagVars, pending,
                        enriched, userVars, delivered>>]_vars

\* a query through the extractor returned the body it was answered with
C35_Witness ==
    /\ entry = GetRateLimit
    /\ args.on = "GitHubExtractor"
    /\ pc = "done"
    /\ Len(requests) = 1
    /\ result = Some([rate |-> [limit |-> 5000, remaining |-> 3,
                                reset |-> current_time + 3600]])
    /\ raised = None

\* the call was given a repo_url that _parse_repo_identifier rejects
Unresolvable ==
    /\ entry = Extract
    /\ "repo_url" \in DOMAIN args
    /\ parse_repo_identifier(args.repo_url).raised # None

\* C36: an identifier that fails to resolve makes extract_repository_info
\* fail before any request is issued: the call ends with the error of the
\* resolution, without a report and with an empty request trace.
C36_NoRequestForBadIdentifier ==
    Unresolvable =>
        /\ requests = <<>>
        /\ result = None
        /\ pc \in {"resolve", "done"}
        /\ pc = "done" =>
             /\ raised = parse_repo_identifier(args.repo_url).raised
             /\ raised[1].type = "ValueError"
        /\ pc = "resolve" => raised = None

\* a gitlab.com URL ended the call with the unsupported-host error and no
\* request
C36_Witness ==
    /\ Unresolvable
    /\ pc = "done"
    /\ StartsWith(args.repo_url, HttpsPrefix \o <<"g","i","t","l","a","b">>)
    /\ raised = Some(ValueError("Only GitHub repositories are supported"))
    /\ requests = <<>>

\* the profile requests made for the records of a section, in order
ProfileFetches(sec) == SelectSeq(requests, LAMBDA r : IsProfileOf(sec, r))

\* C37: profile requests are made only for the records kept after the
\* truncation, once each and in list order: under a cap of max_count >= 1 a
\* section issues at most max_count profile requests, the i-th for the i-th
\* record delivered, and none for a record that the truncation dropped;
\* without detailed info it issues none.
C37_EnrichOnlyKept ==
    entry = Extract =>
        \A sec \in Sections :
            LET fetches == ProfileFetches(sec) IN
            /\ (~args.detailed_user_info => fetches = <<>>)
            /\ Len(fetches) <= Len(delivered[sec])
            /\ \A i \in DOMAIN fetches : fetches[i].login = delivered[sec][i]
            /\ (CapOf(sec) # None /\ CapOf(sec)[1] >= 1 =>
                  Len(fetches) <= CapOf(sec)[1])
            /\ (Returned /\ args.detailed_user_info /\ Included(sec) /\ ~WalkFailed(sec) =>
                  Len(fetches) = KeptOf(sec, Len(delivered[sec])))

\* two stargazers were delivered under a cap of 1: one profile request, for
\* the first of them
C37_Witness ==
    /\ entry = Extract
    /\ Returned
    /\ args.detailed_user_info
    /\ args.max_stargazers = Some(1)
    /\ delivered.stargazers = <<"alice", "bob">>
    /\ Len(ProfileFetches("stargazers")) = 1
    /\ ProfileFetches("stargazers")[1].login = "alice"
    /\ \A i \in DOMAIN requests : requests[i].login # "bob"

\* the members of the report that the forker section does not own
OutsideForkers == {"repository", "stargazers", "total_stargazers", "total_forkers"}

\* C38: a failure of the forker section leaves the rest of the report
\* unchanged: no step of the forker section, its failure included, changes
\* the repository record, the stargazers stored or either total, and after a
\* failed forker walk forkers is empty.
C38_ForkerFailureFrame ==
    /\ [][(entry = Extract /\ section' = "forkers" /\ result # None) =>
            /\ result' # None
            /\ \A f \in OutsideForkers : result'[1][f] = result[1][f]]_vars
    /\ [](entry = Extract /\ WalkFailed("forkers") =>
            /\ Returned
            /\ result[1].forkers = <<>>
            /\ LoginsOf(result[1].stargazers) =
                 SubSeq(delivered.stargazers, 1, Len(result[1].stargazers)))

\* the stargazer section stored a record, then the second page request of the
\* forker walk failed after a first page with a fork
C38_Witness ==
    /\ entry = Extract
    /\ Returned
    /\ WalkFailed("forkers")
    /\ delivered.forkers # <<>>
    /\ result[1].forkers = <<>>
    /\ Len(result[1].stargazers) = 1
    /\ result[1].total_forkers = 1

\* the walk has a page ceiling of at least 1
HasCeiling == TruthyInt(args.max_stargazers)

\* C39: the pagination ends whenever a page ceiling of at least 1 is set, or
\* the upstream returns an empty page at some point, or a request fails;
\* with no ceiling and an upstream that answers every page with a non-empty
\* page the walk stays in its loop, asking for the next page after each one,
\* and so it does when the caller's cap is 0, which sets no ceiling.
C39_WalkEndsIffBounded ==
    /\ ((entry = Extract /\ (HasCeiling \/ args.upstream = "finite")) ~> pc = "done")
    /\ [](entry = Extract /\ ~HasCeiling /\ args.upstream = "endless" =>
            /\ pc # "done"
            /\ max_pages = None
            /\ pc = "paginate" =>
                 /\ page = Len(requests)
                 /\ \A i \in 2..Len(requests) :
                      /\ requests[i].page = i - 1
                      /\ requests[i].items > 0
                 /\ Len(users) = Len(requests) - 1)
    /\ [](entry = Extract /\ pc = "done" /\ ~HasCeiling =>
            \/ Failed(requests[Len(requests)])
            \/ \E i \in DOMAIN requests :
                 IsPageOf("stargazers", requests[i]) /\ requests[i].items = 0)

\* under a cap of 0 the endless upstream was asked for a third page after two
\* non-empty ones
C39_Witness ==
    /\ entry = Extract
    /\ args.upstream = "endless"
    /\ args.max_stargazers = Some(0)
    /\ pc = "paginate"
    /\ page = 3
    /\ Len(users) = 2
    /\ max_pages = None

\* the number of requests of the call so far that went to endpoint `ep`
NumRequests(ep) == Cardinality({i \in DOMAIN requests : requests[i].ep = ep})

\* the owned repositories of the first 3 of the response that stand behind
\* the one whose commit list request i asked for
OwnedBehind(i) ==
    LET list == requests[CHOOSE k \in DOMAIN requests : requests[k].ep = "user_repos"]
    IN {k \in OwnedPositions(list.owners, list.login) \cap 1..3 : k > requests[i].repo}

\* C40: one get_user_info call issues at most 7 requests: the profile request
\* first, then at most one /events request, one /events/public request, one
\* /repos request and 3 commit-list requests; a failed commit-list request
\* for one repository is followed by the commit-list request for the next
\* owned repository of the first 3.
C40_AtMostSevenRequests ==
    entry = GetUser =>
        /\ Len(requests) <= 7
        /\ requests # <<>> => requests[1].ep = "user"
        /\ NumRequests("user") <= 1
        /\ NumRequests("events") <= 1
        /\ NumRequests("events_public") <= 1
        /\ NumRequests("user_repos") <= 1
        /\ NumRequests("commits") <= 3
        /\ \A i \in DOMAIN requests :
             requests[i].ep \in {"user", "events", "events_public", "user_repos",
                                 "commits"}
        /\ \A i \in DOMAIN requests :
             (requests[i].ep = "commits" /\ Failed(requests[i])
                /\ OwnedBehind(i) # {}) =>
                 LET next == CHOOSE k \in OwnedBehind(i) :
                               \A j \in OwnedBehind(i) : k <= j
                 IN IF i = Len(requests)
                    THEN pc = "email_repo_commits" /\ repo_i = next
                    ELSE requests[i + 1].ep = "commits" /\ requests[i + 1].repo = next

\* a call of 7 requests whose first commit-list request failed and whose
\* second and third were made all the same
C40_Witness ==
    /\ entry = GetUser
    /\ pc = "done"
    /\ Len(requests) = 7
    /\ requests[5].ep = "commits"
    /\ Failed(requests[5])
    /\ requests[6].ep = "commits"
    /\ requests[7].ep = "commits"
    /\ requests[7].repo = 3

====
